---- MODULE Spec2Model ----
(***************************************************************************)
(* TuneTutor: the note selection hook (useNoteSelection), the selection    *)
(* geometry (getSelectionRects / getNotesInRange over the render caches)   *)
(* and the playback scheduler (App.handlePlay / playNextNote / handleStop  *)
(* together with the usePlayback hook).                                    *)
(*                                                                         *)
(* Conventions.  A nullable object is Null or a record; a nullable number  *)
(* (number | null, number | undefined) is <<>> or the one-element sequence *)
(* <<n>>.  Times are integer milliseconds.  Beats are counted in           *)
(* sixteenths of a quarter note (BeatUnit), so that the DURATION_TO_BEATS  *)
(* table stays integral.                                                   *)
(***************************************************************************)
EXTENDS Integers, Sequences, FiniteSets, TLC

VARIABLES
  \* ---- useNoteSelection (hook state and refs) ----
  selectedNotes,      \* SelectedNote[]  (insertion ordered list)
  anchorNote,         \* SelectedNote | null
  selectionRange,     \* SelectionRange | null
  isRangeSelecting,   \* boolean
  activeHandle,       \* 'start' | 'end' | null  ("none" for null)
  initialXRef,        \* useRef<number | null>
  \* ---- render caches and the last geometry query ----
  noteBoundsCache,    \* NoteBounds[]
  rowConfigsCache,    \* RowConfig[]
  rects,              \* result of the last getSelectionRects call
  notesInRange,       \* result of the last getNotesInRange call (hook)
  query,              \* arguments of the last geometry query
  \* ---- App state ----
  score, tempo, isAudioEnabled, loopConfig,
  pendingScore,       \* score handed to setScore / setTempo and not yet rendered
  currentMeasure, currentNoteIndex,
  noteIndexRef, currentNoteDurationRef, playbackTimeoutRef, indicatorRef, mounted,
  \* ---- usePlayback ----
  pb,                 \* PlaybackState
  intervalRef,        \* the 50 ms tick interval is registered
  scoreRef, tempoRef, \* refs written by calculateTotalDuration
  \* ---- environment: browser timers, clock, audio engine ----
  timers,             \* pending window.setTimeout callbacks (with their closures)
  elapsed,            \* Date.now() - usePlayback.startTimeRef
  passStart,          \* App.startTimeRef - usePlayback.startTimeRef
  triggered,          \* notes stepped in the current pass, with their times
  userOps,            \* number of user/API operations performed so far
  \* ---- observation ----
  lastOp,             \* name of the handler that ran last
  lastArgs,           \* arguments of the last direct call of a selection hook action
  selBefore,          \* selectedNotes before that call
  result              \* value returned by the last call of a pure function

selVars  == <<selectedNotes, anchorNote>>
rangeVars == <<selectionRange, isRangeSelecting, activeHandle, initialXRef>>
geomVars == <<noteBoundsCache, rowConfigsCache, rects, notesInRange, query>>
appVars  == <<score, tempo, isAudioEnabled, loopConfig, pendingScore, currentMeasure,
              currentNoteIndex, noteIndexRef, currentNoteDurationRef, playbackTimeoutRef, indicatorRef,
              mounted>>
hookVars == <<pb, intervalRef, scoreRef, tempoRef>>
envVars  == <<timers, elapsed, passStart, triggered, userOps>>
obsVars  == <<lastArgs, selBefore, result>>
vars == <<selVars, rangeVars, geomVars, appVars, hookVars, envVars, lastOp,
          obsVars>>

\* the record of a direct call of a selection hook action with arguments args
Called(args) ==
  lastArgs' = args /\ selBefore' = selectedNotes /\ UNCHANGED result

Null == [null |-> TRUE]

Min(a, b) == IF a <= b THEN a ELSE b
Max(a, b) == IF a >= b THEN a ELSE b
\* Math.min / Math.max over a non-empty list of numbers
MinOf(q) == CHOOSE v \in { q[i] : i \in 1..Len(q) } : \A i \in 1..Len(q) : v <= q[i]
MaxOf(q) == CHOOSE v \in { q[i] : i \in 1..Len(q) } : \A i \in 1..Len(q) : v >= q[i]

\* ------------------------------------------------------------------------
\* Bounds of the model
\* ------------------------------------------------------------------------
MaxSel == 4          \* longest selectedNotes list explored
MaxMeasureIdx == 1   \* measure indices offered to the selection operations
MaxNoteIdx == 1      \* note indices offered to the selection operations

\* useNoteSelection(totalMeasures = 8, ...): value seen by the first render
totalMeasures == 8

Note(m, n) == [measureIndex |-> m, noteIndex |-> n]
Notes == { Note(m, n) : m \in 0..MaxMeasureIdx, n \in 0..MaxNoteIdx }

SameNote(a, b) == a.measureIndex = b.measureIndex /\ a.noteIndex = b.noteIndex

\* prev.some(n => n.measureIndex === note.measureIndex && n.noteIndex === note.noteIndex)
Exists(list, note) == \E i \in 1..Len(list) : SameNote(list[i], note)

\* prev.some(n => n.measureIndex === measureIndex)
ExistsMeasure(list, m) == \E i \in 1..Len(list) : list[i].measureIndex = m

\* prev.filter(n => !(same pair as note))
RemoveNote(list, note) ==
  LET Keep(n) == ~SameNote(n, note) IN SelectSeq(list, Keep)

\* prev.filter(n => n.measureIndex !== measureIndex)
RemoveMeasure(list, m) ==
  LET Keep(n) == n.measureIndex # m IN SelectSeq(list, Keep)

\* duplicate-free lists of notes, the argument lists of selectNotes
RECURSIVE ListsOver(_, _)
ListsOver(S, k) ==
  IF k = 0 THEN { <<>> }
  ELSE { <<>> } \cup { <<x>> \o l : x \in S, l \in ListsOver(S, k - 1) }

NoDup(list) == \A i, j \in 1..Len(list) : SameNote(list[i], list[j]) => i = j

NoteLists == { l \in ListsOver(Notes, 2) : NoDup(l) }

\* ------------------------------------------------------------------------
\* useNoteSelection: discrete note selection
\* ------------------------------------------------------------------------

\* toggle branch shared by selectNote('toggle') and toggleNote
ToggleInAppends(prev, note) == Append(prev, note)
ToggleIn(prev, note) ==
  IF Exists(prev, note) THEN RemoveNote(prev, note) ELSE Append(prev, note)

selectNoteKeepsAnchor(note, mode) ==
  /\ mode \in {"replace", "toggle"}
  /\ selectedNotes' = IF mode = "toggle" THEN ToggleIn(selectedNotes, note)
                      ELSE <<note>>
  /\ Len(selectedNotes') <= MaxSel
  /\ lastOp' = "selectNote"
  /\ UNCHANGED <<anchorNote, rangeVars, geomVars, appVars, hookVars, envVars>>
selectNote(note, mode) ==
  /\ mode \in {"replace", "toggle"}
  /\ selectedNotes' = IF mode = "toggle" THEN ToggleIn(selectedNotes, note)
                      ELSE <<note>>
  /\ Len(selectedNotes') <= MaxSel
  /\ anchorNote' = note
  /\ lastOp' = "selectNote"
  /\ UNCHANGED <<rangeVars, geomVars, appVars, hookVars, envVars>>

toggleNote(note) ==
  /\ selectedNotes' = ToggleIn(selectedNotes, note)
  /\ Len(selectedNotes') <= MaxSel
  /\ lastOp' = "toggleNote"
  /\ UNCHANGED <<anchorNote, rangeVars, geomVars, appVars, hookVars, envVars>>

\* notes.filter(n => !existingSet.has(key(n)))
NewNotes(prev, notes) ==
  LET Fresh(n) == ~Exists(prev, n) IN SelectSeq(notes, Fresh)

\* the value selectNotes(notes, mode) gives the selection
SelectNotesResult(prev, notes, mode) ==
  IF mode = "replace" THEN notes ELSE prev \o NewNotes(prev, notes)

selectNotes(notes, mode) ==
  /\ mode \in {"replace", "add"}
  /\ selectedNotes' = SelectNotesResult(selectedNotes, notes, mode)
  /\ Len(selectedNotes') <= MaxSel
  /\ lastOp' = "selectNotes"
  /\ UNCHANGED <<anchorNote, rangeVars, geomVars, appVars, hookVars, envVars>>

\* The actions object is memoised with an empty dependency list, so the
\* selectMeasure it hands out is the one created by the first render: its
\* closure holds the initial anchorNote (null) whatever the current one is.
MemoAnchorLive == anchorNote
MemoAnchor == Null

\* for (let m = startM; m <= endM; m++) rangeNotes.push({ m, 0 })
RECURSIVE RangeNotes(_, _)
RangeNotes(startM, endM) ==
  IF startM > endM THEN <<>>
  ELSE <<Note(startM, 0)>> \o RangeNotes(startM + 1, endM)

selectMeasure(measureIndex, addToSelection) ==
  /\ ~(measureIndex < 0 \/ measureIndex >= totalMeasures)
  /\ LET newSelection == <<Note(measureIndex, 0)>>
         anchor == MemoAnchor
     IN IF addToSelection /\ anchor # Null
        THEN /\ selectedNotes' = selectedNotes \o
                   RangeNotes(Min(anchor.measureIndex, measureIndex),
                              Max(anchor.measureIndex, measureIndex))
             /\ anchorNote' = anchorNote
        ELSE IF addToSelection
        THEN /\ selectedNotes' = IF ExistsMeasure(selectedNotes, measureIndex)
                                 THEN selectedNotes
                                 ELSE selectedNotes \o newSelection
             /\ anchorNote' = newSelection[1]
        ELSE /\ selectedNotes' = newSelection
             /\ anchorNote' = newSelection[1]
  /\ Len(selectedNotes') <= MaxSel
  /\ lastOp' = "selectMeasure"
  /\ UNCHANGED <<rangeVars, geomVars, appVars, hookVars, envVars>>

toggleMeasure(measureIndex) ==
  /\ ~(measureIndex < 0 \/ measureIndex >= totalMeasures)
  /\ LET noteToToggle == Note(measureIndex, 0)
     IN /\ selectedNotes' = IF ExistsMeasure(selectedNotes, measureIndex)
                            THEN RemoveMeasure(selectedNotes, measureIndex)
                            ELSE Append(selectedNotes, noteToToggle)
        /\ anchorNote' = noteToToggle
  /\ Len(selectedNotes') <= MaxSel
  /\ lastOp' = "toggleMeasure"
  /\ UNCHANGED <<rangeVars, geomVars, appVars, hookVars, envVars>>

clearSelection ==
  /\ selectedNotes' = <<>>
  /\ selectionRange' = Null
  /\ isRangeSelecting' = FALSE
  /\ activeHandle' = "none"
  /\ anchorNote' = Null
  /\ lastOp' = "clearSelection"
  /\ UNCHANGED <<initialXRef, geomVars, appVars, hookVars, envVars>>

\* ------------------------------------------------------------------------
\* useNoteSelection: pixel range with draggable handles
\* ------------------------------------------------------------------------
MIN_HANDLE_DISTANCE == 20

XStep == 10
MaxX == 5            \* pointer X inputs are 0, XStep, ..., MaxX * XStep
Xs == { i * XStep : i \in 0..MaxX }
Ys == { <<>>, <<30>> }                  \* optional pointer Y
AnchorArgs == { Null, Note(0, 0), Note(1, 0) }   \* optional start/end note
Handles == {"start", "end"}

Range(sx, ex, sy, ey, sn, en) ==
  [startX |-> sx, endX |-> ex, startY |-> sy, endY |-> ey,
   startNote |-> sn, endNote |-> en]

startRangeSelection(x, y, startNote) ==
  /\ initialXRef' = <<x>>
  /\ selectionRange' = Range(x, x, y, y, startNote, startNote)
  /\ isRangeSelecting' = TRUE
  /\ activeHandle' = "none"
  /\ lastOp' = "startRangeSelection"
  /\ UNCHANGED <<selVars, geomVars, appVars, hookVars, envVars>>

\* if (!initialXRef.current) return;   -- null and 0 are both falsy
PivotMissing(ref) == ref = <<>> \/ ref = <<0>>

updateRangeSelection(x, y, endNote) ==
  /\ IF PivotMissing(initialXRef) THEN selectionRange' = selectionRange
     ELSE LET startX == Min(initialXRef[1], x)
              endX == Max(initialXRef[1], x)
              prev == selectionRange
          IN selectionRange' =
               IF prev = Null THEN Range(startX, endX, y, y, endNote, endNote)
               ELSE Range(startX, endX, prev.startY, y, prev.startNote, endNote)
  /\ lastOp' = "updateRangeSelection"
  /\ UNCHANGED <<isRangeSelecting, activeHandle, initialXRef,
                 selVars, geomVars, appVars, hookVars, envVars>>

endRangeSelection ==
  /\ isRangeSelecting' = FALSE
  /\ activeHandle' = "none"
  /\ initialXRef' = <<>>
  /\ lastOp' = "endRangeSelection"
  /\ UNCHANGED <<selectionRange, selVars, geomVars, appVars, hookVars, envVars>>

\* the clamp of the moved boundary against the other one
ClampStartFree(x, otherHandle) == x
ClampStart(x, otherHandle) == Min(x, otherHandle - MIN_HANDLE_DISTANCE)
ClampEnd(x, otherHandle) == Max(x, otherHandle + MIN_HANDLE_DISTANCE)

\* the object literal returned by the updater: { startX, endX } and nothing else
moveRangeHandle(handle, x) ==
  /\ selectionRange' =
       IF selectionRange = Null THEN Null
       ELSE LET prev == selectionRange
                otherHandle == IF handle = "start" THEN prev.endX ELSE prev.startX
                newStartX == IF handle = "start" THEN ClampStart(x, otherHandle)
                             ELSE prev.startX
                newEndX == IF handle = "start" THEN prev.endX
                           ELSE ClampEnd(x, otherHandle)
            IN Range(newStartX, newEndX, <<>>, <<>>, Null, Null)
  /\ activeHandle' = handle
  /\ lastOp' = "moveRangeHandle"
  /\ UNCHANGED <<isRangeSelecting, initialXRef,
                 selVars, geomVars, appVars, hookVars, envVars>>

setActiveHandle(handle) ==
  /\ activeHandle' = handle
  /\ lastOp' = "setActiveHandle"
  /\ UNCHANGED <<selectionRange, isRangeSelecting, initialXRef,
                 selVars, geomVars, appVars, hookVars, envVars>>

\* ------------------------------------------------------------------------
\* Scores, durations and tempo conversion
\* ------------------------------------------------------------------------
BeatUnit == 16       \* one quarter-note beat, in sixteenths of a beat

\* DURATION_TO_BEATS[d], in BeatUnit-ths; 0 stands for "no entry" (undefined)
DURATION_TO_BEATS(d) ==
  CASE d = "w" -> 64 [] d = "h" -> 32 [] d = "q" -> 16 [] d = "8" -> 8
    [] d = "16" -> 4 [] d = "32" -> 2 [] d = "64" -> 1 [] OTHER -> 0

\* DURATION_TO_BEATS[duration] ?? 1   and   DURATION_TO_BEATS[duration] || 1
BeatsOf(d) == IF DURATION_TO_BEATS(d) = 0 THEN BeatUnit ELSE DURATION_TO_BEATS(d)

\* beats * (60 / tempo) * (4 / timeSignatureBeatValue), in milliseconds
noteDurationToSeconds(duration, tp, timeSignatureBeatValue) ==
  (BeatsOf(duration) * 15000) \div (tp * timeSignatureBeatValue)

beatsToSeconds(beats, tp, timeSignatureBeatValue) ==
  (beats * 15000) \div (tp * timeSignatureBeatValue)

ScoreNote(d, rest) == [duration |-> d, isRest |-> rest]

\* createDemoScore(): eight measures in 4/4, tempo 120; measures 3 and 7 hold
\* one half note, the others two quarter notes
createDemoScore ==
  LET qq == <<ScoreNote("q", FALSE), ScoreNote("q", FALSE)>>
      h == <<ScoreNote("h", FALSE)>>
  IN [measures |-> <<qq, qq, qq, h, qq, qq, qq, h>>, tempo |-> 120, beatValue |-> 4]

\* two measures of two quarter notes, 4/4, tempo 120
ScoreA == [measures |-> << <<ScoreNote("q", FALSE), ScoreNote("q", FALSE)>>,
                           <<ScoreNote("q", FALSE), ScoreNote("q", FALSE)>> >>,
           tempo |-> 120, beatValue |-> 4]
\* quarter, eighth rest | half, 6/8, tempo 60
ScoreB == [measures |-> << <<ScoreNote("q", FALSE), ScoreNote("8", TRUE)>>,
                           <<ScoreNote("h", FALSE)>> >>,
           tempo |-> 60, beatValue |-> 8]
Scores == {ScoreA, ScoreB}
Tempos == {60, 120}

\* score.measures[m] is defined and its note n is defined
HasMeasure(sc, m) == m >= 0 /\ m < Len(sc.measures)
HasNote(sc, m, n) == HasMeasure(sc, m) /\ n >= 0 /\ n < Len(sc.measures[m + 1])
NoteAt(sc, m, n) == sc.measures[m + 1][n + 1]

\* [...selectedNotes].sort((a, b) => a.measureIndex - b.measureIndex || a.noteIndex - b.noteIndex)
NoteLess(a, b) ==
  \/ a.measureIndex < b.measureIndex
  \/ a.measureIndex = b.measureIndex /\ a.noteIndex < b.noteIndex

RECURSIVE InsertSorted(_, _)
InsertSorted(list, x) ==
  IF list = <<>> THEN <<x>>
  ELSE IF NoteLess(x, Head(list)) THEN <<x>> \o list
  ELSE <<Head(list)>> \o InsertSorted(Tail(list), x)

\* (the sorted prefix is bound once, as a value)
RECURSIVE InsertionSort(_)
InsertionSort(list) ==
  IF list = <<>> THEN <<>>
  ELSE CHOOSE r \in { InsertSorted(pre, list[Len(list)]) :
                        pre \in { InsertionSort(SubSeq(list, 1, Len(list) - 1)) } } : TRUE

\* [...selectedNotes].sort(by measureIndex, then noteIndex)
SortNotes(list) == InsertionSort(list)

\* ------------------------------------------------------------------------
\* usePlayback
\* ------------------------------------------------------------------------
InitialPlaybackState ==
  [isPlaying |-> FALSE, isPaused |-> FALSE, currentMeasure |-> -1,
   currentNoteIndex |-> -1, progress |-> 0, currentTime |-> 0,
   totalDuration |-> 0, loopEnabled |-> FALSE, loopRange |-> Null]

LoopRange(sb, eb, skip) == [startBeat |-> sb, endBeat |-> eb, skipBeats |-> skip]

\* play(): the state updater
PlayState(prev) ==
  [prev EXCEPT !.isPlaying = TRUE, !.isPaused = FALSE,
               !.currentMeasure = 0, !.currentNoteIndex = -1]

\* stop(): the state updater
StopStateKeepsPosition(prev) ==
  [prev EXCEPT !.isPlaying = FALSE, !.isPaused = FALSE]
StopState(prev) ==
  [prev EXCEPT !.isPlaying = FALSE, !.isPaused = FALSE,
               !.currentMeasure = -1, !.currentNoteIndex = -1,
               !.progress = 0, !.currentTime = 0]

\* pause(): the state updater
PauseStateKeepsPlaying(prev) == [prev EXCEPT !.isPaused = TRUE]
PauseState(prev) == [prev EXCEPT !.isPlaying = FALSE, !.isPaused = TRUE]

\* seek(time): the state updater (totalDuration is never assigned, so the
\* quotient branch is never taken)
SeekState(prev, time) ==
  [prev EXCEPT !.currentTime = time,
               !.progress = IF prev.totalDuration > 0
                            THEN (time * 100) \div prev.totalDuration ELSE 0]

\* setLoopRange(range): the state updater
SetLoopRangeState(prev, range) ==
  [prev EXCEPT !.loopRange = range, !.loopEnabled = (range # Null)]

\* toggleLoop() without a range argument: the state updater
ToggleLoopState(prev) ==
  [prev EXCEPT !.loopEnabled = ~prev.loopEnabled]

\* The not-a-number value of the platform's arithmetic: x % 0 yields it, every
\* comparison with it is false and every sum or quotient of it is itself.
NaN == [nan |-> TRUE]

\* A beat count (kept in sixteenths) as the plain number of beats the code
\* holds: whole where the count is a whole number of beats, else the fraction.
BeatsAsNumber(b) ==
  IF b % BeatUnit = 0 THEN b \div BeatUnit ELSE [num |-> b, den |-> BeatUnit]

\* calculateNotePosition when no note spans the time: the last note
BeyondAllNotes(sc) ==
  LET last == Len(sc.measures) - 1
  IN IF Len(sc.measures[last + 1]) > 0
     THEN [measureIndex |-> last, noteIndex |-> Len(sc.measures[last + 1]) - 1]
     ELSE [measureIndex |-> 0, noteIndex |-> 0]

\* calculateNotePosition(score, currentTime, tempo): linear scan accumulating
\* the note durations; times in milliseconds
RECURSIVE ScanNotes(_, _, _, _, _, _)
ScanNotes(sc, t, tp, m, n, elapsedTime) ==
  IF m >= Len(sc.measures)
  THEN BeyondAllNotes(sc)
  ELSE IF n >= Len(sc.measures[m + 1])
  THEN ScanNotes(sc, t, tp, m + 1, 0, elapsedTime)
  ELSE LET noteDuration ==
             noteDurationToSeconds(NoteAt(sc, m, n).duration, tp, sc.beatValue)
       IN IF t >= elapsedTime /\ t < elapsedTime + noteDuration
          THEN [measureIndex |-> m, noteIndex |-> n]
          ELSE ScanNotes(sc, t, tp, m, n + 1, elapsedTime + noteDuration)

calculateNotePosition(sc, currentTime, tp) == ScanNotes(sc, currentTime, tp, 0, 0, 0)

\* if (prev.totalDuration === 0) return prev;
TickGuard(prev) == prev.totalDuration # 0

\* The interval callback's state updater; currentTime is the time elapsed
\* since startTimeRef.  progress is kept as whole percent (rounded down).
TickState(prev, currentTime) ==
  IF ~TickGuard(prev) THEN prev
  ELSE
  LET newProgress == (currentTime * 100) \div prev.totalDuration IN
  IF prev.loopEnabled /\ prev.loopRange # Null /\ scoreRef # Null
  THEN LET playBeats == prev.loopRange.endBeat - prev.loopRange.startBeat
           playDuration == beatsToSeconds(playBeats, tempoRef, 4)
           skipBeats == IF prev.loopRange.skipBeats # 0
                        THEN prev.loopRange.skipBeats ELSE playBeats
           skipDuration == beatsToSeconds(skipBeats, tempoRef, 4)
           cycleDuration == playDuration + skipDuration
           \* currentTime % 0 is NaN
           isNaN == cycleDuration = 0
           cycleTime == IF isNaN THEN NaN ELSE currentTime % cycleDuration
       IN IF ~isNaN /\ cycleTime >= playDuration
          THEN [prev EXCEPT
                  !.progress = (playDuration * 100) \div prev.totalDuration,
                  !.currentTime = playDuration,
                  !.currentMeasure = BeatsAsNumber(prev.loopRange.endBeat),
                  !.currentNoteIndex = -1]
          ELSE LET startBeatOffset ==
                     beatsToSeconds(prev.loopRange.startBeat, tempoRef, 4)
                   \* with a NaN time no comparison of the scan holds and
                   \* calculateNotePosition falls through to the last note
                   pos == IF isNaN THEN BeyondAllNotes(scoreRef)
                          ELSE calculateNotePosition(scoreRef,
                                 cycleTime + startBeatOffset, tempoRef)
               IN [prev EXCEPT
                     !.progress = IF isNaN THEN NaN
                                  ELSE (cycleTime * 100) \div prev.totalDuration,
                     !.currentTime = cycleTime,
                     !.currentMeasure = pos.measureIndex,
                     !.currentNoteIndex = pos.noteIndex]
  ELSE IF newProgress >= 100
  THEN IF prev.loopEnabled
       THEN [prev EXCEPT !.progress = 0, !.currentTime = 0,
                         !.currentMeasure = 0, !.currentNoteIndex = -1]
       ELSE [prev EXCEPT !.isPlaying = FALSE, !.progress = 100,
                         !.currentTime = prev.totalDuration]
  ELSE LET pos == IF scoreRef # Null
                  THEN calculateNotePosition(scoreRef, currentTime, tempoRef)
                  ELSE [measureIndex |-> 0, noteIndex |-> 0]
       IN [prev EXCEPT !.progress = newProgress, !.currentTime = currentTime,
                       !.currentMeasure = pos.measureIndex,
                       !.currentNoteIndex = pos.noteIndex]

\* The tick effect of usePlayback, deps [isPlaying, loopEnabled, loopRange,
\* totalDuration], after the render that takes the state from old to new: when
\* a dependency changed the cleanup clears the interval and the effect registers
\* one iff new.isPlaying; otherwise the interval stays as the handlers left it
\* (iv).  freshRange: setLoopRange was handed a new range object.
DepsChanged(old, new, freshRange) ==
  \/ old.isPlaying # new.isPlaying
  \/ old.loopEnabled # new.loopEnabled
  \/ old.totalDuration # new.totalDuration
  \/ old.loopRange # new.loopRange
  \/ freshRange /\ new.loopRange # Null

TickEffect(old, new, iv, freshRange) ==
  IF DepsChanged(old, new, freshRange) THEN new.isPlaying ELSE iv

\* ------------------------------------------------------------------------
\* App: loop configuration sync effect
\* ------------------------------------------------------------------------
RECURSIVE SumSeq(_)
SumSeq(q) == IF q = <<>> THEN 0 ELSE Head(q) + SumSeq(Tail(q))

\* beats of the notes 0 .. n-1 of measure m
BeatsBefore(sc, m, n) ==
  SumSeq([i \in 1..n |-> BeatsOf(sc.measures[m + 1][i].duration)])

\* beats of all notes of the measures 0 .. m-1
BeatsOfMeasures(sc, m) ==
  SumSeq([i \in 1..m |-> BeatsBefore(sc, i - 1, Len(sc.measures[i]))])

\* the effect dereferences score.measures[m] and .notes[n] without a guard
EffectThrows(sel, cfg, sc) ==
  /\ cfg.skipBeats > 0 /\ Len(sel) > 0
  /\ LET sorted == SortNotes(sel)
         first == sorted[1]
         last == sorted[Len(sorted)]
     IN \/ \E m \in 0..(first.measureIndex - 1) : ~HasMeasure(sc, m)
        \/ \E n \in 0..(first.noteIndex - 1) : ~HasNote(sc, first.measureIndex, n)
        \/ \E m \in 0..(last.measureIndex - 1) : ~HasMeasure(sc, m)
        \/ ~HasNote(sc, last.measureIndex, last.noteIndex)

\* the range handed to setLoopRange by the effect (beats in BeatUnit-ths)
LoopRangeFor(sel, cfg, sc) ==
  IF cfg.skipBeats > 0 /\ Len(sel) > 0
  THEN LET sorted == SortNotes(sel)
           first == sorted[1]
           last == sorted[Len(sorted)]
           startBeat == BeatsOfMeasures(sc, first.measureIndex)
                          + BeatsBefore(sc, first.measureIndex, first.noteIndex)
           lastNoteBeats ==
             BeatsOf(NoteAt(sc, last.measureIndex, last.noteIndex).duration)
           endBeat == BeatsOfMeasures(sc, last.measureIndex) + lastNoteBeats
       IN LoopRange(startBeat, endBeat, cfg.skipBeats * BeatUnit)
  ELSE Null

\* ------------------------------------------------------------------------
\* App: note stepping (handlePlay / playNextNote / handleStop)
\* ------------------------------------------------------------------------
MaxUserOps == 4      \* user / API operations explored per behaviour
MaxElapsed == 4400   \* the clock is followed this far after play (ms)
Quantum == 500       \* granularity of time steps between timer expiries (ms)
StaleRetryMs == 10   \* window.setTimeout(playNextNote, 10)
MaxLate == 100       \* a timeout callback is followed up to this long after its due time (ms)

\* clearTimeout(playbackTimeoutRef.current)
ClearTimeoutNoop(tms, ref) == tms
ClearTimeout(tms, ref) == { tm \in tms : <<tm.id>> # ref }

\* handle returned by window.setTimeout: never one that is still referenced
FreshId(tms, ref) ==
  CHOOSE i \in 1..(Cardinality(tms) + 2) :
    /\ \A tm \in tms : tm.id # i
    /\ <<i>> # ref
    /\ \A j \in 1..(i - 1) : (\E tm \in tms : tm.id = j) \/ <<j>> = ref

\* the values handlePlay's closure holds for playNextNote
Closure ==
  [notes |-> SortNotes(selectedNotes), loop |-> pb.loopEnabled, tempo |-> tempo,
   score |-> score, audio |-> isAudioEnabled]

NewTimer(c, tms, ref, due) ==
  [id |-> FreshId(tms, ref), due |-> due, notes |-> c.notes, loop |-> c.loop,
   tempo |-> c.tempo, score |-> c.score, audio |-> c.audio]

\* the entry at the cursor does not resolve: !measure || noteIdx >= measure.notes.length
IsStale(c, k) ==
  ~HasNote(c.score, c.notes[k + 1].measureIndex, c.notes[k + 1].noteIndex)

\* noteDurationToSeconds(note.duration, tempo) * 1000
StepDelay(c, k) ==
  IF IsStale(c, k) THEN StaleRetryMs
  ELSE LET e == c.notes[k + 1]
       IN noteDurationToSeconds(NoteAt(c.score, e.measureIndex, e.noteIndex).duration,
                                c.tempo, 4)

\* isAudioEnabled && !note.isRest
PlaysAudio(c, k) ==
  LET e == c.notes[k + 1]
  IN c.audio /\ ~NoteAt(c.score, e.measureIndex, e.noteIndex).isRest

\* playNextNote below the end of the sequence, at cursor k (0-based), run at
\* time now with the pending timers tms and the pass started at pstart
PlayStep(c, k, tms, ref, now, pstart, log, curM, curN) ==
  /\ noteIndexRef' = k + 1
  /\ timers' = tms \cup { NewTimer(c, tms, ref, now + StepDelay(c, k)) }
  /\ playbackTimeoutRef' = << FreshId(tms, ref) >>
  /\ IF IsStale(c, k)
     THEN /\ currentMeasure' = curM
          /\ currentNoteIndex' = curN
          /\ currentNoteDurationRef' = currentNoteDurationRef
          /\ triggered' = log
     ELSE /\ currentMeasure' = c.notes[k + 1].measureIndex
          /\ currentNoteDurationRef' = StepDelay(c, k)
          /\ currentNoteIndex' = c.notes[k + 1].noteIndex
          /\ triggered' = Append(log,
               [k |-> k, measureIndex |-> c.notes[k + 1].measureIndex,
                noteIndex |-> c.notes[k + 1].noteIndex, t |-> now - pstart,
                audio |-> PlaysAudio(c, k)])

handleStop ==
  /\ mounted /\ pendingScore = <<>> /\ userOps < MaxUserOps
  /\ userOps' = userOps + 1
  /\ timers' = ClearTimeout(timers, playbackTimeoutRef)
  /\ playbackTimeoutRef' = <<>>
  /\ pb' = StopState(pb)
  /\ intervalRef' = FALSE
  /\ currentMeasure' = -1
  /\ currentNoteIndex' = -1
  /\ noteIndexRef' = 0
  /\ indicatorRef' = FALSE
  /\ lastOp' = "handleStop"
  /\ UNCHANGED <<selVars, rangeVars, geomVars, score, pendingScore, tempo, isAudioEnabled,
                 loopConfig, currentNoteDurationRef, mounted, scoreRef, tempoRef,
                 elapsed, passStart, triggered>>

\* PlaybackControls onPause={handleStop}: the pause button runs handleStop
onPause ==
  /\ mounted /\ pendingScore = <<>> /\ userOps < MaxUserOps
  /\ userOps' = userOps + 1
  /\ timers' = ClearTimeout(timers, playbackTimeoutRef)
  /\ playbackTimeoutRef' = <<>>
  /\ pb' = StopState(pb)
  /\ intervalRef' = FALSE
  /\ currentMeasure' = -1
  /\ currentNoteIndex' = -1
  /\ noteIndexRef' = 0
  /\ indicatorRef' = FALSE
  /\ lastOp' = "onPause"
  /\ UNCHANGED <<selVars, rangeVars, geomVars, score, pendingScore, tempo, isAudioEnabled,
                 loopConfig, currentNoteDurationRef, mounted, scoreRef, tempoRef,
                 elapsed, passStart, triggered>>

\* handleStop(), playbackActions.play(), then playNextNote() at cursor 0
handlePlay ==
  /\ mounted /\ pendingScore = <<>> /\ userOps < MaxUserOps
  /\ Len(selectedNotes) # 0
  /\ userOps' = userOps + 1
  /\ pb' = PlayState(StopState(pb))
  \* stop() cleared the interval; the batched render sees only pb -> pb'
  /\ intervalRef' = TickEffect(pb, pb', FALSE, FALSE)
  /\ elapsed' = 0
  /\ passStart' = 0
  /\ indicatorRef' = TRUE
  /\ PlayStep(Closure, 0, ClearTimeout(timers, playbackTimeoutRef), <<>>,
              0, 0, <<>>, -1, -1)
  /\ lastOp' = "handlePlay"
  /\ UNCHANGED <<selVars, rangeVars, geomVars, score, pendingScore, tempo, isAudioEnabled,
                 loopConfig, mounted, scoreRef, tempoRef>>

\* playNextNote's end-of-sequence decision
Restarts(c) == c.loop

\* the timer tm has expired and the event loop runs playNextNote with its
\* closure, at its due time or later
FireTimer(tm) ==
  /\ mounted
  /\ tm \in timers /\ tm.due <= elapsed
  /\ LET rest == timers \ {tm} IN
     IF noteIndexRef >= Len(tm.notes)
     THEN IF Restarts(tm)
          THEN \* loop: new indicator, cursor 0, new pass start, first note at once
               /\ indicatorRef' = TRUE
               /\ passStart' = elapsed
               /\ PlayStep(tm, 0, rest, playbackTimeoutRef, elapsed, elapsed,
                           <<>>, 0, 0)
               /\ lastOp' = "restart"
               /\ UNCHANGED <<pb, intervalRef>>
          ELSE \* indicator removed, handleStop()
               /\ indicatorRef' = FALSE
               /\ timers' = ClearTimeout(rest, playbackTimeoutRef)
               /\ playbackTimeoutRef' = <<>>
               /\ pb' = StopState(pb)
               /\ intervalRef' = FALSE
               /\ currentMeasure' = -1
               /\ currentNoteIndex' = -1
               /\ noteIndexRef' = 0
               /\ lastOp' = "end"
               /\ UNCHANGED <<currentNoteDurationRef, passStart, triggered>>
     ELSE /\ PlayStep(tm, noteIndexRef, rest, playbackTimeoutRef, elapsed,
                      passStart, triggered, currentMeasure, currentNoteIndex)
          /\ lastOp' = IF IsStale(tm, noteIndexRef) THEN "stale" ELSE "note"
          /\ UNCHANGED <<pb, intervalRef, indicatorRef, passStart>>
  /\ UNCHANGED <<selVars, rangeVars, geomVars, score, pendingScore, tempo, isAudioEnabled,
                 loopConfig, mounted, scoreRef, tempoRef, elapsed, userOps>>

\* ------------------------------------------------------------------------
\* App: user operations around playback
\* ------------------------------------------------------------------------
SkipChoices == {0, 4}       \* beats offered by the skip buttons (0 = off)

\* selections handed to the App by the notation display; the empty one by a
\* mouse-up outside the notes
PlayLists ==
  { <<>>,
    <<Note(1, 0), Note(0, 0), Note(1, 1), Note(0, 1)>>,
    <<Note(1, 0), Note(0, 1)>>,
    <<Note(0, 1)>>,
    <<Note(1, 1), Note(1, 0)>> }

\* The effect [loopConfig, selectedNotes, score] -> setLoopRange, run after the
\* render that follows a change of sel / cfg / sc.  An exception thrown by the
\* effect is uncaught: React unmounts the tree and runs the cleanups.
SyncLoop(sel, cfg, sc, pbBase, tmsBase, ivBase) ==
  IF EffectThrows(sel, cfg, sc)
  THEN /\ mounted' = FALSE
       /\ pb' = pbBase
       /\ timers' = ClearTimeout(tmsBase, playbackTimeoutRef')
       /\ intervalRef' = FALSE
  ELSE /\ mounted' = mounted
       /\ pb' = SetLoopRangeState(pbBase, LoopRangeFor(sel, cfg, sc))
       /\ timers' = tmsBase
       /\ intervalRef' = TickEffect(pb, pb', ivBase, TRUE)

\* NotationDisplay onNoteSelect = selectionActions.selectNotes
onNoteSelect(notes, mode) ==
  /\ mounted /\ pendingScore = <<>> /\ userOps < MaxUserOps
  /\ userOps' = userOps + 1
  /\ selectedNotes' = SelectNotesResult(selectedNotes, notes, mode)
  /\ Len(selectedNotes') <= MaxSel
  /\ playbackTimeoutRef' = playbackTimeoutRef
  /\ SyncLoop(selectedNotes', loopConfig, score, pb, timers, intervalRef)
  /\ lastOp' = "onNoteSelect"
  /\ UNCHANGED <<anchorNote, rangeVars, geomVars, score, pendingScore, tempo, isAudioEnabled,
                 loopConfig, currentMeasure, currentNoteIndex, noteIndexRef, currentNoteDurationRef,
                 indicatorRef, scoreRef, tempoRef, elapsed, passStart, triggered>>

\* PlaybackControls onLoopConfigChange = setLoopConfig
onLoopConfigChange(skip) ==
  /\ mounted /\ pendingScore = <<>> /\ userOps < MaxUserOps
  /\ userOps' = userOps + 1
  /\ loopConfig' = [skipBeats |-> skip]
  /\ playbackTimeoutRef' = playbackTimeoutRef
  /\ SyncLoop(selectedNotes, loopConfig', score, pb, timers, intervalRef)
  /\ lastOp' = "onLoopConfigChange"
  /\ UNCHANGED <<selVars, rangeVars, geomVars, score, pendingScore, tempo, isAudioEnabled,
                 currentMeasure, currentNoteIndex, noteIndexRef, currentNoteDurationRef, indicatorRef,
                 scoreRef, tempoRef, elapsed, passStart, triggered>>

\* PlaybackControls onTempoChange = setTempo
onTempoChange(tp) ==
  /\ mounted /\ pendingScore = <<>> /\ userOps < MaxUserOps
  /\ userOps' = userOps + 1
  /\ tempo' = tp
  /\ lastOp' = "onTempoChange"
  /\ UNCHANGED <<selVars, rangeVars, geomVars, score, pendingScore, isAudioEnabled, loopConfig,
                 currentMeasure, currentNoteIndex, noteIndexRef, currentNoteDurationRef,
                 playbackTimeoutRef, indicatorRef, mounted, hookVars, timers,
                 elapsed, passStart, triggered>>

\* handleScoreLoaded: setScore, setTempo(loadedScore.tempo || 120).  The file
\* loader calls it from a promise continuation: the two updates are queued and
\* rendered in a later turn of the event loop.
handleScoreLoaded(loadedScore) ==
  /\ mounted /\ pendingScore = <<>> /\ userOps < MaxUserOps
  /\ userOps' = userOps + 1
  /\ pendingScore' = <<loadedScore>>
  /\ lastOp' = "handleScoreLoaded"
  /\ UNCHANGED <<selVars, rangeVars, geomVars, score, tempo, isAudioEnabled,
                 loopConfig, currentMeasure, currentNoteIndex, noteIndexRef, currentNoteDurationRef,
                 playbackTimeoutRef, indicatorRef, mounted, hookVars, timers,
                 elapsed, passStart, triggered>>

\* the render of the queued score and tempo, followed by the loop sync effect
\* (its dependency score has changed)
syncLoopEffect(loadedScore) ==
  /\ mounted /\ pendingScore = <<loadedScore>>
  /\ pendingScore' = <<>>
  /\ score' = loadedScore
  /\ tempo' = IF loadedScore.tempo # 0 THEN loadedScore.tempo ELSE 120
  /\ playbackTimeoutRef' = playbackTimeoutRef
  /\ SyncLoop(selectedNotes, loopConfig, score', pb, timers, intervalRef)
  /\ lastOp' = "syncLoopEffect"
  /\ UNCHANGED <<selVars, rangeVars, geomVars, isAudioEnabled, loopConfig,
                 currentMeasure, currentNoteIndex, noteIndexRef, currentNoteDurationRef, indicatorRef,
                 scoreRef, tempoRef, elapsed, passStart, triggered, userOps>>

\* keydown Escape: handleStop(); selectionActions.clearSelection()
onEscape ==
  /\ mounted /\ pendingScore = <<>> /\ userOps < MaxUserOps
  /\ userOps' = userOps + 1
  /\ selectedNotes' = <<>>
  /\ selectionRange' = Null
  /\ isRangeSelecting' = FALSE
  /\ activeHandle' = "none"
  /\ anchorNote' = Null
  /\ playbackTimeoutRef' = <<>>
  /\ SyncLoop(selectedNotes', loopConfig, score, StopState(pb),
              ClearTimeout(timers, playbackTimeoutRef), FALSE)
  /\ currentMeasure' = -1
  /\ currentNoteIndex' = -1
  /\ noteIndexRef' = 0
  /\ indicatorRef' = FALSE
  /\ lastOp' = "onEscape"
  /\ UNCHANGED <<initialXRef, geomVars, score, pendingScore, tempo, isAudioEnabled, loopConfig,
                 currentNoteDurationRef, scoreRef, tempoRef, elapsed, passStart, triggered>>

\* SelectionInfo onClearSelection = selectionActions.clearSelection: the
\* selection is emptied, playback is left alone
onClearSelection ==
  /\ mounted /\ pendingScore = <<>> /\ userOps < MaxUserOps
  /\ userOps' = userOps + 1
  /\ selectedNotes' = <<>>
  /\ selectionRange' = Null
  /\ isRangeSelecting' = FALSE
  /\ activeHandle' = "none"
  /\ anchorNote' = Null
  /\ playbackTimeoutRef' = playbackTimeoutRef
  /\ SyncLoop(selectedNotes', loopConfig, score, pb, timers, intervalRef)
  /\ lastOp' = "onClearSelection"
  /\ UNCHANGED <<initialXRef, geomVars, score, pendingScore, tempo, isAudioEnabled,
                 loopConfig, currentMeasure, currentNoteIndex, noteIndexRef,
                 currentNoteDurationRef, indicatorRef, scoreRef, tempoRef,
                 elapsed, passStart, triggered>>

\* const totalMeasures = score?.measures.length || 8
AppTotalMeasures(sc) == IF Len(sc.measures) # 0 THEN Len(sc.measures) ELSE 8

\* the measure indices of the selected notes
SelectedMeasures == [ i \in 1..Len(selectedNotes) |-> selectedNotes[i].measureIndex ]

\* selectionActions.selectMeasure(measureIndex) called by the App: the hook
\* validates the index, selects the measure's first note and anchors on it
AppSelectMeasure(measureIndex) ==
  /\ mounted /\ pendingScore = <<>> /\ userOps < MaxUserOps
  /\ ~(measureIndex < 0 \/ measureIndex >= totalMeasures)
  /\ userOps' = userOps + 1
  /\ selectedNotes' = <<Note(measureIndex, 0)>>
  /\ anchorNote' = Note(measureIndex, 0)
  /\ playbackTimeoutRef' = playbackTimeoutRef
  /\ SyncLoop(selectedNotes', loopConfig, score, pb, timers, intervalRef)
  /\ UNCHANGED <<rangeVars, geomVars, score, pendingScore, tempo, isAudioEnabled,
                 loopConfig, currentMeasure, currentNoteIndex, noteIndexRef,
                 currentNoteDurationRef, indicatorRef, scoreRef, tempoRef,
                 elapsed, passStart, triggered>>

\* keydown ArrowLeft: the measure before the first selected one
onArrowLeft ==
  /\ Len(selectedNotes) > 0
  /\ MinOf(SelectedMeasures) > 0
  /\ AppSelectMeasure(MinOf(SelectedMeasures) - 1)
  /\ lastOp' = "onArrowLeft"

\* keydown ArrowRight: the measure after the last selected one
onArrowRight ==
  /\ Len(selectedNotes) > 0
  /\ MaxOf(SelectedMeasures) < AppTotalMeasures(score) - 1
  /\ AppSelectMeasure(MaxOf(SelectedMeasures) + 1)
  /\ lastOp' = "onArrowRight"

\* initAudio resolves: setIsAudioEnabled(true)
initAudio ==
  /\ mounted /\ ~isAudioEnabled
  /\ isAudioEnabled' = TRUE
  /\ lastOp' = "initAudio"
  /\ UNCHANGED <<selVars, rangeVars, geomVars, score, pendingScore, tempo, loopConfig,
                 currentMeasure, currentNoteIndex, noteIndexRef, currentNoteDurationRef,
                 playbackTimeoutRef, indicatorRef, mounted, hookVars, envVars>>

\* usePlayback.toggleLoop()
toggleLoop ==
  /\ mounted /\ pendingScore = <<>> /\ userOps < MaxUserOps
  /\ userOps' = userOps + 1
  /\ pb' = ToggleLoopState(pb)
  /\ intervalRef' = TickEffect(pb, pb', intervalRef, FALSE)
  /\ lastOp' = "toggleLoop"
  /\ UNCHANGED <<selVars, rangeVars, geomVars, appVars, scoreRef,
                 tempoRef, timers, elapsed, passStart, triggered>>

\* ---- usePlayback called directly ----
\* play(): startTimeRef = Date.now() moves the clock origin; the tick effect
\* registers the interval.  pauseTimeRef cancels out of the tick's currentTime
\* (elapsed - pauseTime + pauseTime), so it is not part of the state.
play ==
  /\ mounted /\ pendingScore = <<>> /\ userOps < MaxUserOps
  /\ userOps' = userOps + 1
  /\ pb' = PlayState(pb)
  /\ intervalRef' = TickEffect(pb, pb', intervalRef, FALSE)
  /\ elapsed' = 0
  /\ passStart' = passStart - elapsed
  /\ timers' = { [tm EXCEPT !.due = tm.due - elapsed] : tm \in timers }
  /\ lastOp' = "play"
  /\ UNCHANGED <<selVars, rangeVars, geomVars, appVars, scoreRef, tempoRef,
                 triggered>>

pause ==
  /\ mounted /\ pendingScore = <<>> /\ userOps < MaxUserOps
  /\ userOps' = userOps + 1
  /\ pb' = PauseState(pb)
  /\ intervalRef' = FALSE
  /\ lastOp' = "pause"
  /\ UNCHANGED <<selVars, rangeVars, geomVars, appVars, scoreRef, tempoRef,
                 timers, elapsed, passStart, triggered>>

stop ==
  /\ mounted /\ pendingScore = <<>> /\ userOps < MaxUserOps
  /\ userOps' = userOps + 1
  /\ pb' = StopState(pb)
  /\ intervalRef' = FALSE
  /\ lastOp' = "stop"
  /\ UNCHANGED <<selVars, rangeVars, geomVars, appVars, scoreRef, tempoRef,
                 timers, elapsed, passStart, triggered>>

setLoopRange(range) ==
  /\ mounted /\ pendingScore = <<>> /\ userOps < MaxUserOps
  /\ userOps' = userOps + 1
  /\ pb' = SetLoopRangeState(pb, range)
  /\ intervalRef' = TickEffect(pb, pb', intervalRef, TRUE)
  /\ lastOp' = "setLoopRange"
  /\ UNCHANGED <<selVars, rangeVars, geomVars, appVars, scoreRef,
                 tempoRef, timers, elapsed, passStart, triggered>>

seek(time) ==
  /\ mounted /\ pendingScore = <<>> /\ userOps < MaxUserOps
  /\ userOps' = userOps + 1
  /\ pb' = SeekState(pb, time)
  /\ lastOp' = "seek"
  /\ UNCHANGED <<selVars, rangeVars, geomVars, appVars, intervalRef, scoreRef,
                 tempoRef, timers, elapsed, passStart, triggered>>

\* loop ranges and seek times passed to the hook
HookRanges == { Null, LoopRange(0, 4 * BeatUnit, 4 * BeatUnit),
                LoopRange(0, 4 * BeatUnit, 0) }
SeekTimes == { 0, 1000 }

\* usePlayback.calculateTotalDuration(score, tempo): stores both in refs and
\* returns the total; the PlaybackState is not touched
calculateTotalDuration(sc, tp) ==
  /\ mounted /\ pendingScore = <<>> /\ userOps < MaxUserOps
  /\ userOps' = userOps + 1
  /\ scoreRef' = sc
  /\ tempoRef' = tp
  /\ lastOp' = "calculateTotalDuration"
  /\ UNCHANGED <<selVars, rangeVars, geomVars, appVars, pb, intervalRef, timers,
                 elapsed, passStart, triggered>>

\* the 50 ms interval callback of usePlayback
tick ==
  /\ mounted /\ intervalRef
  /\ pb' = TickState(pb, elapsed)
  /\ intervalRef' = pb'.isPlaying
  /\ IF TickGuard(pb) /\ ~(pb.loopEnabled /\ pb.loopRange # Null /\ scoreRef # Null)
        /\ (elapsed * 100) \div pb.totalDuration >= 100 /\ pb.loopEnabled
     THEN \* startTimeRef.current = Date.now(): the clock origin moves
          /\ elapsed' = 0
          /\ passStart' = passStart - elapsed
          /\ timers' = { [tm EXCEPT !.due = tm.due - elapsed] : tm \in timers }
     ELSE UNCHANGED <<elapsed, passStart, timers>>
  /\ lastOp' = "tick"
  /\ UNCHANGED <<selVars, rangeVars, geomVars, appVars, scoreRef, tempoRef,
                 triggered, userOps>>

\* the steps of the clock that are followed: one quantum, up to a timer's due
\* time, or past it by the longest delay of its callback
TimeSteps ==
  {Quantum} \cup { tm.due - elapsed : tm \in timers }
            \cup { tm.due + MaxLate - elapsed : tm \in timers }

\* time passes; a due callback is not kept waiting longer than MaxLate
Advance(dt) ==
  /\ mounted /\ pendingScore = <<>> /\ (timers # {} \/ intervalRef)
  /\ dt > 0
  /\ elapsed + dt <= MaxElapsed
  /\ \A tm \in timers : elapsed + dt <= tm.due + MaxLate
  /\ elapsed' = elapsed + dt
  /\ lastOp' = "advance"
  /\ UNCHANGED <<selVars, rangeVars, geomVars, appVars, hookVars, timers,
                 passStart, triggered, userOps>>

\* the App unmounts: cleanup effects clear the timeout and the interval
unmount ==
  /\ mounted
  /\ mounted' = FALSE
  /\ timers' = ClearTimeout(timers, playbackTimeoutRef)
  /\ intervalRef' = FALSE
  /\ lastOp' = "unmount"
  /\ UNCHANGED <<selVars, rangeVars, geomVars, score, pendingScore, tempo, isAudioEnabled,
                 loopConfig, currentMeasure, currentNoteIndex, noteIndexRef, currentNoteDurationRef,
                 playbackTimeoutRef, indicatorRef, pb, scoreRef, tempoRef,
                 elapsed, passStart, triggered, userOps>>

\* ------------------------------------------------------------------------
\* Notation renderer: layout, bounds caches and selection geometry
\* ------------------------------------------------------------------------
STAVE_WIDTH == 200
STAVE_HEIGHT == 80
PADDING == 20
STAVE_PADDING == 0
ROW_SPACING == 30
TOP_Y == 30
measuresPerRow == 4

\* Bounding box of a rendered note head relative to its stave: the formatter
\* spreads the n notes of a measure over staveWidth - 40
NoteHeadOffset == 30
NoteHeadWidth == 12
NoteHeadTop == 25
NoteHeadHeight == 30
BoxX(staveX, noteIndex, n) ==
  staveX + NoteHeadOffset + noteIndex * ((STAVE_WIDTH - 40) \div n)

\* the rowConfigs of calculateScoreLayout(measureCount, { measuresPerRow,
\* rowSpacing }); Math.ceil of the quotient of two naturals
CeilDivFloor(a, b) == a \div b
CeilDiv(a, b) == (a + b - 1) \div b
calculateScoreLayout(measureCount, perRow, rowSpacing) ==
  LET totalRows == CeilDiv(measureCount, perRow)
  IN [ row \in 1..totalRows |->
         LET startMeasure == (row - 1) * perRow
         IN [ startMeasure |-> startMeasure,
              endMeasure |-> Min(startMeasure + perRow - 1, measureCount - 1),
              rowIndex |-> row - 1,
              y |-> TOP_Y + (row - 1) * (STAVE_HEIGHT + rowSpacing) ] ]

\* the cache entry renderScore pushes for note noteIndex of measure
\* measureIndex, counts being the number of notes of every measure
NoteBounds(counts, measureIndex, noteIndex) ==
  LET row == measureIndex \div measuresPerRow
      rowConfig == calculateScoreLayout(Len(counts), measuresPerRow,
                                        ROW_SPACING)[row + 1]
      indexInRow == measureIndex - rowConfig.startMeasure
      x == PADDING + indexInRow * (STAVE_WIDTH + STAVE_PADDING)
  IN [ measureIndex |-> measureIndex, noteIndex |-> noteIndex,
       x |-> BoxX(x, noteIndex, counts[measureIndex + 1]),
       y |-> rowConfig.y + NoteHeadTop,
       width |-> NoteHeadWidth, height |-> NoteHeadHeight,
       staveX |-> x, staveY |-> rowConfig.y,
       staveWidth |-> STAVE_WIDTH, staveHeight |-> STAVE_HEIGHT,
       rowIndex |-> rowConfig.rowIndex ]

RECURSIVE RenderBounds(_, _)
\* the bounds pushed for measures m.. in rendering order
RenderBounds(counts, m) ==
  IF m >= Len(counts) THEN <<>>
  ELSE [ i \in 1..counts[m + 1] |-> NoteBounds(counts, m, i - 1) ]
       \o RenderBounds(counts, m + 1)

\* renderScore: clearCaches, then push the row configurations and the
\* bounds of every rendered note
renderScoreKeepsCaches(counts) ==
  /\ rowConfigsCache' = rowConfigsCache
         \o calculateScoreLayout(Len(counts), measuresPerRow, ROW_SPACING)
  /\ noteBoundsCache' = noteBoundsCache \o RenderBounds(counts, 0)
  /\ rects' = <<>> /\ notesInRange' = <<>> /\ query' = Null
  /\ lastOp' = "renderScore"
  /\ UNCHANGED <<selVars, rangeVars, appVars, hookVars, envVars>>
renderScore(counts) ==
  /\ rowConfigsCache' = calculateScoreLayout(Len(counts), measuresPerRow,
                                             ROW_SPACING)
  /\ noteBoundsCache' = RenderBounds(counts, 0)
  /\ rects' = <<>> /\ notesInRange' = <<>> /\ query' = Null
  /\ lastOp' = "renderScore"
  /\ UNCHANGED <<selVars, rangeVars, appVars, hookVars, envVars>>

\* clearNotationContainer: empties the container, the note positions store
\* and, through clearCaches, both caches
clearNotationContainer ==
  /\ rowConfigsCache' = <<>>
  /\ noteBoundsCache' = <<>>
  /\ rects' = <<>> /\ notesInRange' = <<>> /\ query' = Null
  /\ lastOp' = "clearNotationContainer"
  /\ UNCHANGED <<selVars, rangeVars, appVars, hookVars, envVars>>

\* Array.prototype.findIndex: 0-based, -1 when absent
FindIndex(cache, note) ==
  LET hits == { i \in 1..Len(cache) : SameNote(cache[i], note) }
  IN IF hits = {} THEN -1
     ELSE (CHOOSE i \in hits : \A j \in hits : i <= j) - 1

\* utils/notation/layout getNotesInRange(startNote, endNote)
layoutGetNotesInRange(startNote, endNote) ==
  LET startIdx == FindIndex(noteBoundsCache, startNote)
      endIdx == FindIndex(noteBoundsCache, endNote)
  IN IF startIdx = -1 \/ endIdx = -1 THEN <<>>
     ELSE SubSeq(noteBoundsCache, Min(startIdx, endIdx) + 1,
                 Max(startIdx, endIdx) + 1)

\* a middle row spans its first note to its last note
MiddleRowEndsAtFirst(rowNotes) == <<rowNotes[1], rowNotes[1]>>
MiddleRowEnds(rowNotes) == <<rowNotes[1], rowNotes[Len(rowNotes)]>>

\* the pair (rowStartNote, rowEndNote) getSelectionRects picks for a row
RowEnds(row, startRow, endRow, startNote, endNote, rowNotes) ==
  IF row = startRow /\ row = endRow
  THEN IF startNote.x <= endNote.x THEN <<startNote, endNote>>
                                   ELSE <<endNote, startNote>>
  ELSE IF row = startRow
  THEN << IF startNote.rowIndex = row THEN startNote ELSE rowNotes[1],
          rowNotes[Len(rowNotes)] >>
  ELSE IF row = endRow
  THEN << rowNotes[1],
          IF endNote.rowIndex = row THEN endNote ELSE rowNotes[Len(rowNotes)] >>
  ELSE MiddleRowEnds(rowNotes)

RECURSIVE RectsFrom(_, _, _, _, _)
\* the loop of getSelectionRects from row on
RectsFrom(row, startRow, endRow, startNote, endNote) ==
  IF row > endRow THEN <<>>
  ELSE
    LET configs == SelectSeq(rowConfigsCache, LAMBDA r : r.rowIndex = row)
        rowNotes == SelectSeq(noteBoundsCache, LAMBDA n : n.rowIndex = row)
        rest == RectsFrom(row + 1, startRow, endRow, startNote, endNote)
    IN IF configs = <<>> \/ rowNotes = <<>> THEN rest
       ELSE LET ends == RowEnds(row, startRow, endRow, startNote, endNote,
                                rowNotes)
            IN << [ startX |-> ends[1].x,
                    endX |-> ends[2].x + ends[2].width,
                    rowIndex |-> row,
                    rowY |-> configs[1].y,
                    rowHeight |-> STAVE_HEIGHT ] >> \o rest

getSelectionRects(startNote, endNote) ==
  LET startRow == Min(startNote.rowIndex, endNote.rowIndex)
      endRow == Max(startNote.rowIndex, endNote.rowIndex)
  IN RectsFrom(startRow, startRow, endRow, startNote, endNote)

\* getNotePositions: the cache narrowed to position fields (the fields
\* narrowed away are never read through a NotePosition)
getNotePositions == noteBoundsCache

\* useNoteSelection isNoteInRange(note, range)
isNoteInRange(note, range) ==
  LET noteLeft == note.x
      noteRight == note.x + note.width
      rangeLeft == Min(range.startX, range.endX)
      rangeRight == Max(range.startX, range.endX)
      inXRange == noteRight >= rangeLeft /\ noteLeft <= rangeRight
  IN IF ~inXRange THEN FALSE
     ELSE IF range.startY # <<>>
     THEN LET startRowTop == range.startY[1]
              startRowBottom == range.startY[1] + STAVE_HEIGHT
              noteTop == note.y
              noteBottom == note.y + note.height
          IN noteBottom >= startRowTop /\ noteTop <= startRowBottom
     ELSE TRUE

\* useNoteSelection getNotesInRange(range, notePositions)
getNotesInRange(range, notePositions) ==
  LET inRange == SelectSeq(notePositions, LAMBDA n : isNoteInRange(n, range))
  IN [ i \in 1..Len(inRange) |->
         Note(inRange[i].measureIndex, inRange[i].noteIndex) ]

\* ---- the geometry operations applied to the rendered caches; query, rects
\* and notesInRange record the last call and its result ----
callGetSelectionRects(startNote, endNote) ==
  /\ rects' = getSelectionRects(startNote, endNote)
  /\ query' = [op |-> "getSelectionRects",
               startNote |-> startNote, endNote |-> endNote]
  /\ lastOp' = "getSelectionRects"
  /\ notesInRange' = <<>>
  /\ UNCHANGED <<noteBoundsCache, rowConfigsCache,
                 selVars, rangeVars, appVars, hookVars, envVars>>

callLayoutGetNotesInRange(startNote, endNote) ==
  /\ LET res == layoutGetNotesInRange(startNote, endNote)
     IN notesInRange' = [ i \in 1..Len(res) |->
                            Note(res[i].measureIndex, res[i].noteIndex) ]
  /\ query' = [op |-> "layoutGetNotesInRange",
               startNote |-> startNote, endNote |-> endNote]
  /\ lastOp' = "layoutGetNotesInRange"
  /\ rects' = <<>>
  /\ UNCHANGED <<noteBoundsCache, rowConfigsCache,
                 selVars, rangeVars, appVars, hookVars, envVars>>

callGetNotesInRange(range) ==
  /\ notesInRange' = getNotesInRange(range, getNotePositions)
  /\ query' = [op |-> "getNotesInRange", range |-> range]
  /\ lastOp' = "getNotesInRange"
  /\ rects' = <<>>
  /\ UNCHANGED <<noteBoundsCache, rowConfigsCache,
                 selVars, rangeVars, appVars, hookVars, envVars>>

\* progressInNote is a fraction of ProgressUnit
ProgressUnit == 100
Progresses == { 0, 50, 100 }

getPlaybackIndicatorXIgnoresLast(measure, currentNoteIdx, progressInNote, isLastNote) ==
  LET positions == getNotePositions
      idx == FindIndex(positions, Note(measure, currentNoteIdx))
  IN IF idx = -1 THEN 0
     ELSE IF idx + 2 <= Len(positions)
     THEN positions[idx + 1].x
            + ((positions[idx + 2].x - positions[idx + 1].x) * progressInNote)
                \div ProgressUnit
     ELSE positions[idx + 1].x
            + (positions[idx + 1].width * progressInNote) \div ProgressUnit
getPlaybackIndicatorX(measure, currentNoteIdx, progressInNote, isLastNote) ==
  LET positions == getNotePositions
      idx == FindIndex(positions, Note(measure, currentNoteIdx))
      notesInMeasure ==
        SelectSeq(positions, LAMBDA n : n.measureIndex = measure)
  IN IF idx = -1
     THEN IF Len(notesInMeasure) > 0 THEN notesInMeasure[1].x ELSE 0
     ELSE LET currentNotePos == positions[idx + 1]
          IN IF idx + 2 <= Len(positions) /\ ~isLastNote
             THEN currentNotePos.x
                    + ((positions[idx + 2].x - currentNotePos.x) * progressInNote)
                        \div ProgressUnit
             ELSE currentNotePos.x
                    + (currentNotePos.width * progressInNote) \div ProgressUnit

callGetPlaybackIndicatorX(measure, currentNoteIdx, progressInNote, isLastNote) ==
  /\ result' = getPlaybackIndicatorX(measure, currentNoteIdx,
                                     progressInNote, isLastNote)
  /\ lastArgs' = <<measure, currentNoteIdx, progressInNote, isLastNote>>
  /\ lastOp' = "getPlaybackIndicatorX"
  /\ UNCHANGED <<selVars, rangeVars, geomVars, appVars, hookVars, envVars,
                 selBefore>>

\* ---- the playback indicator's row ----
VERTICAL_OFFSET == 30

\* getRowConfigs(measureCount, { measuresPerRow })
getRowConfigs(measureCount, perRow) ==
  calculateScoreLayout(measureCount, perRow, ROW_SPACING)

\* rowConfigs.find(r => measureIndex >= r.startMeasure && measureIndex <= r.endMeasure)
FindRow(measureIndex, rowConfigs) ==
  LET hits == { i \in 1..Len(rowConfigs) :
                  /\ measureIndex >= rowConfigs[i].startMeasure
                  /\ measureIndex <= rowConfigs[i].endMeasure }
  IN IF hits = {} THEN Null
     ELSE rowConfigs[CHOOSE i \in hits : \A j \in hits : i <= j]

getIndicatorRowBounds(measureIndex, rowConfigs) ==
  LET row == FindRow(measureIndex, rowConfigs)
  IN IF row = Null THEN Null
     ELSE [top |-> row.y + VERTICAL_OFFSET,
           bottom |-> row.y + (STAVE_HEIGHT - VERTICAL_OFFSET)]

\* App updateIndicator / handlePlay: the rows the indicator's bounds are taken
\* from, getRowConfigs(score?.measures.length || 8, { measuresPerRow: 5 })
IndicatorRowConfigs(sc) == getRowConfigs(AppTotalMeasures(sc), 5)

\* App updateIndicator, the animation frame callback requested by the effect
\* [isPlaying, currentMeasure, currentNoteIndex, score] and cancelled by its
\* cleanup: it returns early unless playing with a note duration and
\* an indicator element, else writes the bounds of currentMeasure's row, when
\* there is one, into the indicator's style (result: the bounds written)
updateIndicator ==
  /\ mounted
  /\ result' = IF ~pb.isPlaying \/ currentNoteDurationRef = 0 \/ ~indicatorRef
               THEN Null
               ELSE getIndicatorRowBounds(currentMeasure, IndicatorRowConfigs(score))
  /\ lastArgs' = <<currentMeasure, IndicatorRowConfigs(score)>>
  /\ lastOp' = "updateIndicator"
  /\ UNCHANGED <<selVars, rangeVars, geomVars, appVars, hookVars, envVars,
                 selBefore>>

\* ---- row highlights of a range selection ----
\* findRowIndexByY: the first row whose band contains y, else row 0
findRowIndexByY(y) ==
  LET hits == { i \in 1..Len(rowConfigsCache) :
                  /\ y >= rowConfigsCache[i].y + VERTICAL_OFFSET
                  /\ y <= rowConfigsCache[i].y + STAVE_HEIGHT - VERTICAL_OFFSET }
  IN IF hits = {} THEN 0
     ELSE rowConfigsCache[CHOOSE i \in hits : \A j \in hits : i <= j].rowIndex

RECURSIVE CoordHighlightsFrom(_, _, _, _)
\* the coordinate loop of calculateRowHighlights from rowIdx on
CoordHighlightsFrom(rowIdx, maxRow, startX, endX) ==
  IF rowIdx > maxRow THEN <<>>
  ELSE
    LET configs == SelectSeq(rowConfigsCache, LAMBDA r : r.rowIndex = rowIdx)
        rowNotes == SelectSeq(noteBoundsCache, LAMBDA n : n.rowIndex = rowIdx)
        inRange == SelectSeq(rowNotes,
                             LAMBDA n : n.x + n.width >= startX /\ n.x <= endX)
        rest == CoordHighlightsFrom(rowIdx + 1, maxRow, startX, endX)
    IN IF configs = <<>> \/ rowNotes = <<>> \/ inRange = <<>> THEN rest
       ELSE << [ row |-> configs[1],
                 lineStartX |-> MinOf([i \in 1..Len(inRange) |-> inRange[i].x]),
                 lineEndX |-> MaxOf([i \in 1..Len(inRange) |->
                                       inRange[i].x + inRange[i].width]) ] >>
            \o rest

\* both anchors are present and found in noteBoundsCache
AnchorsResolve(range) ==
  /\ range.startNote # Null /\ range.endNote # Null
  /\ FindIndex(noteBoundsCache, range.startNote) # -1
  /\ FindIndex(noteBoundsCache, range.endNote) # -1

\* the note-anchored branch: one highlight per rectangle of getSelectionRects
\* whose row is found
NoteHighlights(range) ==
  LET a == noteBoundsCache[FindIndex(noteBoundsCache, range.startNote) + 1]
      b == noteBoundsCache[FindIndex(noteBoundsCache, range.endNote) + 1]
      rs == SelectSeq(getSelectionRects(a, b),
                      LAMBDA rect : \E i \in 1..Len(rowConfigsCache) :
                                      rowConfigsCache[i].rowIndex = rect.rowIndex)
  IN [ i \in 1..Len(rs) |->
         [ row |-> SelectSeq(rowConfigsCache,
                             LAMBDA r : r.rowIndex = rs[i].rowIndex)[1],
           lineStartX |-> rs[i].startX, lineEndX |-> rs[i].endX ] ]

\* the coordinate branch: startY ?? 0, endY ?? 0, endY ? row of endY : start row
CoordHighlights(range) ==
  LET startX == Min(range.startX, range.endX)
      endX == Max(range.startX, range.endX)
      startY == IF range.startY = <<>> THEN 0 ELSE range.startY[1]
      endY == IF range.endY = <<>> THEN 0 ELSE range.endY[1]
      startRowIndex == findRowIndexByY(startY)
      endRowIndex == IF endY # 0 THEN findRowIndexByY(endY) ELSE startRowIndex
  IN CoordHighlightsFrom(Min(startRowIndex, endRowIndex),
                         Max(startRowIndex, endRowIndex), startX, endX)

calculateRowHighlightsGivesUp(range) ==
  IF range = Null \/ rowConfigsCache = <<>> THEN <<>>
  ELSE IF AnchorsResolve(range) THEN NoteHighlights(range)
  ELSE IF range.startNote # Null \/ range.endNote # Null
  THEN <<>>
  ELSE CoordHighlights(range)
calculateRowHighlights(range) ==
  IF range = Null \/ rowConfigsCache = <<>> THEN <<>>
  ELSE IF AnchorsResolve(range) THEN NoteHighlights(range)
  ELSE CoordHighlights(range)

callCalculateRowHighlights(range) ==
  /\ result' = calculateRowHighlights(range)
  /\ lastArgs' = <<range>>
  /\ lastOp' = "calculateRowHighlights"
  /\ UNCHANGED <<selVars, rangeVars, geomVars, appVars, hookVars, envVars,
                 selBefore>>

\* calculateScoreLayout applied to a measure count and options
callCalculateScoreLayout(measureCount, perRow, rowSpacing) ==
  /\ result' = calculateScoreLayout(measureCount, perRow, rowSpacing)
  /\ lastArgs' = <<measureCount, perRow, rowSpacing>>
  /\ lastOp' = "calculateScoreLayout"
  /\ UNCHANGED <<selVars, rangeVars, geomVars, appVars, hookVars, envVars,
                 selBefore>>

\* ---- musicXMLParser: the parsed document (musicxml-io result) to a score ----
\* A document is a list of parts, a part a list of measures, a measure its
\* number attribute and its entries; an entry is given by its kind: a note, a
\* chord note, a grace note or a non-note entry.
XMLMeasure(number, entries) == [number |-> number, entries |-> entries]

\* entry.type === 'note', not entry.chord, and parseNote() is not null (grace)
IsParsedNote(entry) == entry = "note"

\* parseMeasures: currentMeasureIndex counts the measures of the part
parseMeasuresByNumber(part) ==
  [ i \in 1..Len(part) |->
      [index |-> part[i].number, notes |-> SelectSeq(part[i].entries, IsParsedNote)] ]
parseMeasures(part) ==
  [ i \in 1..Len(part) |->
      [index |-> i - 1, notes |-> SelectSeq(part[i].entries, IsParsedNote)] ]

\* convertToParsedScore: the first part only; no part or no measure gives an
\* empty score
convertToParsedScore(parts) ==
  IF Len(parts) = 0 \/ Len(parts[1]) = 0
  THEN [measures |-> <<>>]
  ELSE [measures |-> parseMeasures(parts[1])]

callParseMusicXML(parts) ==
  /\ result' = convertToParsedScore(parts)
  /\ lastArgs' = <<parts>>
  /\ lastOp' = "parseMusicXML"
  /\ UNCHANGED <<selVars, rangeVars, geomVars, appVars, hookVars, envVars,
                 selBefore>>

MaxXMLMeasures == 3
MeasureNumbers == {1, 2, 7}
EntryLists == { <<"note", "chord", "note">>, <<"direction", "grace">> }
XMLMeasures == { XMLMeasure(nr, es) : nr \in MeasureNumbers, es \in EntryLists }
XMLParts == UNION { [1..n -> XMLMeasures] : n \in 0..MaxXMLMeasures }
XMLDocuments == { <<>> } \cup { <<part>> : part \in XMLParts }
                  \cup { <<part, <<XMLMeasure(1, <<"note">>)>> >> :
                           part \in { q \in XMLParts : Len(q) <= 1 } }

\* ---- rendered scores and query arguments ----
MaxLayoutMeasures == 12
MaxPerRow == 5
RowSpacings == { 0, ROW_SPACING }
MaxRows == 3
RowPatterns == { <<0, 0, 0, 0>>, <<2, 0, 0, 1>> }
RECURSIVE Flatten(_)
Flatten(rows) == IF rows = <<>> THEN <<>> ELSE Head(rows) \o Flatten(Tail(rows))
\* note counts per measure: scores of whole rows, and one with a short last row
ShortScores == { <<2, 0, 0, 1, 0, 1>> }
NoteCounts ==
  ({ Flatten(rows) : rows \in ListsOver(RowPatterns, MaxRows) } \ {<<>>})
    \cup ShortScores
CachedNotes == { noteBoundsCache[i] : i \in 1..Len(noteBoundsCache) }
\* the range left by startRangeSelection(x0, y0, startNote) followed by
\* updateRangeSelection(x, y, endNote)
DragRange(x0, y0, startNote, x, y, endNote) ==
  IF PivotMissing(<<x0>>) THEN Range(x0, x0, y0, y0, startNote, startNote)
  ELSE Range(Min(x0, x), Max(x0, x), y0, y, startNote, endNote)

\* ranges a drag between two rendered notes can leave behind: from the left
\* edge of a to the right edge of b (without heights, with heights, without
\* anchors) and from the right edge of a to the left edge of b
DragRangesOf(a, b) ==
  LET sn == Note(a.measureIndex, a.noteIndex)
      en == Note(b.measureIndex, b.noteIndex)
      ex == b.x + b.width
  IN { DragRange(a.x, <<>>, sn, ex, <<>>, en),
       DragRange(a.x, <<a.staveY>>, sn, ex, <<b.staveY>>, en),
       DragRange(a.x, <<a.staveY>>, Null, ex, <<b.staveY>>, Null),
       DragRange(a.x + a.width, <<>>, sn, b.x, <<>>, en) }
DragRanges ==
  UNION { DragRangesOf(a, b) : a \in CachedNotes, b \in CachedNotes }

\* coordinate-anchored ranges: a drag from note a to a note b of the same
\* row, edge to edge or touching the two notes from outside, started at the
\* height StartYOffsets below the top of a's stave (or without startY)
StartYOffsets == {0, 40, 60}
CoordRangesOf(a, b) ==
  { DragRange(sx, sy, Null, ex, <<>>, Null) :
      sx \in {a.x, a.x + a.width}, ex \in {b.x, b.x + b.width},
      sy \in {<<>>} \cup { <<a.staveY + d>> : d \in StartYOffsets } }
CoordRanges ==
  UNION { CoordRangesOf(p[1], p[2]) :
            p \in { q \in CachedNotes \X CachedNotes :
                      q[1].rowIndex = q[2].rowIndex } }

\* a note that is in no rendered score
MissingNote == Note(MaxRows * measuresPerRow + 1, 0)
\* ranges handed to calculateRowHighlights: a drag from note a to note b with
\* heights inside the rows of a and b (or no end height), both anchors
\* resolving or one of them missing
HighlightRangesOf(a, b) ==
  LET sn == Note(a.measureIndex, a.noteIndex)
      en == Note(b.measureIndex, b.noteIndex)
  IN { DragRange(a.x, <<a.staveY + 40>>, an[1], b.x + b.width, ey, an[2]) :
         ey \in { <<>>, <<b.staveY + 40>> },
         an \in { <<sn, en>>, <<MissingNote, en>>, <<sn, MissingNote>> } }
HighlightRanges ==
  {Null} \cup UNION { HighlightRangesOf(a, b) : a \in CachedNotes, b \in CachedNotes }

\* ------------------------------------------------------------------------
\* Specifications
\* ------------------------------------------------------------------------
Init ==
  /\ selectedNotes = <<>> /\ anchorNote = Null
  /\ selectionRange = Null /\ isRangeSelecting = FALSE
  /\ activeHandle = "none" /\ initialXRef = <<>>
  /\ noteBoundsCache = <<>> /\ rowConfigsCache = <<>>
  /\ rects = <<>> /\ notesInRange = <<>> /\ query = Null
  /\ score = createDemoScore /\ tempo = 60 /\ isAudioEnabled = FALSE
  /\ pendingScore = <<>>
  /\ loopConfig = [skipBeats |-> 0]
  /\ currentMeasure = -1 /\ currentNoteIndex = -1
  /\ noteIndexRef = 0 /\ playbackTimeoutRef = <<>> /\ indicatorRef = FALSE
  /\ currentNoteDurationRef = 0
  /\ mounted = TRUE
  /\ pb = InitialPlaybackState /\ intervalRef = FALSE
  /\ scoreRef = Null /\ tempoRef = 120
  /\ timers = {} /\ elapsed = 0 /\ passStart = 0 /\ triggered = <<>>
  /\ userOps = 0
  /\ lastOp = "init"
  /\ lastArgs = <<>> /\ selBefore = <<>> /\ result = Null

\* the selection hook: discrete note selection
Next ==
  \/ \E note \in Notes, mode \in {"replace", "toggle"} :
       selectNote(note, mode) /\ Called(<<note, mode>>)
  \/ \E note \in Notes : toggleNote(note) /\ Called(<<note>>)
  \/ \E notes \in NoteLists, mode \in {"replace", "add"} :
       selectNotes(notes, mode) /\ Called(<<notes, mode>>)
  \/ \E m \in 0..MaxMeasureIdx, add \in BOOLEAN :
       selectMeasure(m, add) /\ Called(<<m, add>>)
  \/ \E m \in 0..MaxMeasureIdx : toggleMeasure(m) /\ Called(<<m>>)
  \/ clearSelection /\ Called(<<>>)

Spec == Init /\ [][Next]_vars

\* the selection hook: pixel range and handles
NextRange ==
  \/ \E x \in Xs, y \in Ys, n \in AnchorArgs :
       startRangeSelection(x, y, n) /\ Called(<<x, y, n>>)
  \/ \E x \in Xs, y \in Ys, n \in AnchorArgs :
       updateRangeSelection(x, y, n) /\ Called(<<x, y, n>>)
  \/ endRangeSelection /\ Called(<<>>)
  \/ \E h \in Handles, x \in Xs : moveRangeHandle(h, x) /\ Called(<<h, x>>)
  \/ \E h \in Handles \cup {"none"} : setActiveHandle(h) /\ Called(<<h>>)
  \/ clearSelection /\ Called(<<>>)

SpecRange == Init /\ [][NextRange]_vars

\* the App: note stepping scheduler and usePlayback
NextPlay ==
  \/ \E notes \in PlayLists : onNoteSelect(notes, "replace") /\ UNCHANGED obsVars
  \/ \E skip \in SkipChoices : onLoopConfigChange(skip) /\ UNCHANGED obsVars
  \/ \E tp \in Tempos : onTempoChange(tp) /\ UNCHANGED obsVars
  \/ \E sc \in Scores : handleScoreLoaded(sc) /\ UNCHANGED obsVars
  \/ \E sc \in Scores : syncLoopEffect(sc) /\ UNCHANGED obsVars
  \/ onEscape /\ UNCHANGED obsVars
  \/ onClearSelection /\ UNCHANGED obsVars
  \/ onArrowLeft /\ UNCHANGED obsVars
  \/ onArrowRight /\ UNCHANGED obsVars
  \/ initAudio /\ UNCHANGED obsVars
  \/ handlePlay /\ UNCHANGED obsVars
  \/ handleStop /\ UNCHANGED obsVars
  \/ onPause /\ UNCHANGED obsVars
  \/ \E tm \in timers : FireTimer(tm) /\ UNCHANGED obsVars
  \/ tick /\ UNCHANGED obsVars
  \/ \E dt \in TimeSteps : Advance(dt) /\ UNCHANGED obsVars
  \/ unmount /\ UNCHANGED obsVars

SpecPlay == Init /\ [][NextPlay]_vars

\* usePlayback on its own: the hook's actions, its tick and the clock
NextHook ==
  \/ play /\ UNCHANGED obsVars
  \/ pause /\ UNCHANGED obsVars
  \/ stop /\ UNCHANGED obsVars
  \/ toggleLoop /\ UNCHANGED obsVars
  \/ \E range \in HookRanges : setLoopRange(range) /\ UNCHANGED obsVars
  \/ \E time \in SeekTimes : seek(time) /\ UNCHANGED obsVars
  \/ \E sc \in Scores, tp \in Tempos :
       calculateTotalDuration(sc, tp) /\ UNCHANGED obsVars
  \/ tick /\ UNCHANGED obsVars
  \/ Advance(Quantum) /\ UNCHANGED obsVars

SpecHook == Init /\ [][NextHook]_vars

\* the renderer and the selection geometry over its caches
NextGeom ==
  \/ \E counts \in NoteCounts :
       renderScore(counts) /\ lastArgs' = <<counts>>
                           /\ UNCHANGED <<selBefore, result>>
  \/ clearNotationContainer /\ lastArgs' = <<>> /\ UNCHANGED <<selBefore, result>>
  \/ \E a \in CachedNotes, b \in CachedNotes :
       callGetSelectionRects(a, b) /\ UNCHANGED obsVars
  \/ \E a \in CachedNotes, b \in CachedNotes :
       callLayoutGetNotesInRange(a, b) /\ UNCHANGED obsVars
  \/ \E range \in DragRanges : callGetNotesInRange(range) /\ UNCHANGED obsVars

SpecGeom == Init /\ [][NextGeom]_vars

\* the renderer and coordinate-anchored range queries
NextCoordRange ==
  \/ \E counts \in NoteCounts :
       renderScore(counts) /\ lastArgs' = <<counts>>
                           /\ UNCHANGED <<selBefore, result>>
  \/ clearNotationContainer /\ lastArgs' = <<>> /\ UNCHANGED <<selBefore, result>>
  \/ \E range \in CoordRanges : callGetNotesInRange(range) /\ UNCHANGED obsVars

SpecCoordRange == Init /\ [][NextCoordRange]_vars

\* the renderer and the row highlights of range selections
NextHighlights ==
  \/ \E counts \in NoteCounts :
       renderScore(counts) /\ lastArgs' = <<counts>>
                           /\ UNCHANGED <<selBefore, result>>
  \/ clearNotationContainer /\ lastArgs' = <<>> /\ UNCHANGED <<selBefore, result>>
  \/ \E range \in HighlightRanges : callCalculateRowHighlights(range)

SpecHighlights == Init /\ [][NextHighlights]_vars

\* the renderer and the playback indicator position
NextIndicator ==
  \/ \E counts \in NoteCounts :
       renderScore(counts) /\ lastArgs' = <<counts>>
                           /\ UNCHANGED <<selBefore, result>>
  \/ clearNotationContainer /\ lastArgs' = <<>> /\ UNCHANGED <<selBefore, result>>
  \/ \E m \in -1..(Len(rowConfigsCache) * measuresPerRow),
        n \in -1..MaxNoteIdx + 1, pr \in Progresses, isLast \in BOOLEAN :
       callGetPlaybackIndicatorX(m, n, pr, isLast)

SpecIndicator == Init /\ [][NextIndicator]_vars

\* the App's playback indicator over the score it displays
CountsOf(sc) == [ m \in 1..Len(sc.measures) |-> Len(sc.measures[m]) ]
ScoreOfCounts(counts) ==
  [measures |-> [ m \in 1..Len(counts) |->
                    [ n \in 1..counts[m] |-> ScoreNote("q", FALSE) ] ],
   tempo |-> 120, beatValue |-> 4]
IndicatorCounts == ShortScores \cup { <<2, 0, 0, 1>>, <<2, 0, 0, 1, 2, 0, 0, 1>> }
IndicatorLists == { <<Note(0, 0)>>, <<Note(3, 0), Note(4, 0)>>, <<Note(5, 0)>> }

NextFrame ==
  \/ \E counts \in IndicatorCounts :
       handleScoreLoaded(ScoreOfCounts(counts)) /\ UNCHANGED obsVars
  \/ \E counts \in IndicatorCounts :
       syncLoopEffect(ScoreOfCounts(counts)) /\ UNCHANGED obsVars
  \/ renderScore(CountsOf(score)) /\ lastArgs' = <<CountsOf(score)>>
                                  /\ UNCHANGED <<selBefore, result>>
  \/ clearNotationContainer /\ lastArgs' = <<>> /\ UNCHANGED <<selBefore, result>>
  \/ \E notes \in IndicatorLists : onNoteSelect(notes, "replace") /\ UNCHANGED obsVars
  \/ handlePlay /\ UNCHANGED obsVars
  \/ handleStop /\ UNCHANGED obsVars
  \/ \E tm \in timers : FireTimer(tm) /\ UNCHANGED obsVars
  \/ \E dt \in TimeSteps : Advance(dt) /\ UNCHANGED obsVars
  \/ updateIndicator

SpecFrame == Init /\ [][NextFrame]_vars

\* the layout calculation on its own
NextLayout ==
  \E measureCount \in 0..MaxLayoutMeasures, perRow \in 1..MaxPerRow,
     rowSpacing \in RowSpacings :
    callCalculateScoreLayout(measureCount, perRow, rowSpacing)

SpecLayout == Init /\ [][NextLayout]_vars

\* the MusicXML conversion on its own
NextParse ==
  \E parts \in XMLDocuments : callParseMusicXML(parts)

SpecParse == Init /\ [][NextParse]_vars

\* Timers expire and time passes: the event loop always runs a due callback
SpecPlayFair ==
  /\ SpecPlay
  /\ WF_vars(\E tm \in timers : FireTimer(tm) /\ UNCHANGED obsVars)
  /\ WF_vars(\E dt \in TimeSteps : Advance(dt) /\ UNCHANGED obsVars)
  /\ WF_vars(\E sc \in Scores : syncLoopEffect(sc) /\ UNCHANGED obsVars)

\* ------------------------------------------------------------------------
\* Properties
\* ------------------------------------------------------------------------

\* C1: after any sequence of selectNote, toggleNote, selectNotes (duplicate-free
\* argument lists), selectMeasure, toggleMeasure and clearSelection, no two
\* entries of selectedNotes have the same (measureIndex, noteIndex) pair.
C1_NoDuplicateSelection == NoDup(selectedNotes)

\* a measure was added by selectMeasure while an anchor note is set and the
\* selection already holds several notes
C1_Witness ==
  /\ lastOp = "selectMeasure"
  /\ anchorNote # Null
  /\ Len(selectedNotes) >= 3
  /\ \E i \in 1..Len(selectedNotes) : selectedNotes[i].noteIndex # 0

\* C2: after every moveRangeHandle call on a non-null range, startX < endX and
\* endX - startX >= MIN_HANDLE_DISTANCE: the handles neither cross nor meet.
C2_HandlesApart ==
  (lastOp = "moveRangeHandle" /\ selectionRange # Null) =>
     /\ selectionRange.startX < selectionRange.endX
     /\ selectionRange.endX - selectionRange.startX >= MIN_HANDLE_DISTANCE

\* the start handle was dragged beyond the end handle and got clamped
C2_Witness ==
  /\ lastOp = "moveRangeHandle"
  /\ selectionRange # Null
  /\ activeHandle = "start"
  /\ selectionRange.startX < 0
  /\ selectionRange.endX - selectionRange.startX = MIN_HANDLE_DISTANCE

\* the closure of the pass that is running: the one held by the pending timer
IsAscending(list) ==
  \A i, j \in 1..Len(list) : i < j => ~NoteLess(list[j], list[i])

\* the wall-clock duration of entry i of the sequence, in ms:
\* beats * (60 / tempo) * (4 / timeSignatureBeatValue)
EntryMs(c, i) ==
  noteDurationToSeconds(
    NoteAt(c.score, c.notes[i].measureIndex, c.notes[i].noteIndex).duration,
    c.tempo, c.score.beatValue)

AllResolve(c, k) ==
  \A i \in 1..k : HasNote(c.score, c.notes[i].measureIndex, c.notes[i].noteIndex)

\* C3: in one pass the scheduler steps through the selected notes in ascending
\* (measureIndex, noteIndex) order, one at a time; the note at position k is
\* triggered when the durations of the notes before it have elapsed since the
\* pass began (a timer callback that the browser runs late, by at most MaxLate,
\* is not held against the scheduler); a rest triggers no audio but is waited
\* for in full.
C3_NotesInOrderOnTime ==
  \A tm \in timers :
    /\ IsAscending(tm.notes)
    /\ \A i \in 1..Len(triggered) :
         LET e == triggered[i]
             sum == SumSeq([j \in 1..e.k |-> EntryMs(tm, j)])
         IN
         /\ e.k < Len(tm.notes)
         /\ SameNote(e, tm.notes[e.k + 1])
         /\ i > 1 => triggered[i - 1].k < e.k
         /\ AllResolve(tm, e.k) => sum <= e.t /\ e.t <= sum + e.k * MaxLate
         /\ NoteAt(tm.score, e.measureIndex, e.noteIndex).isRest => ~e.audio
         /\ (tm.audio /\ ~NoteAt(tm.score, e.measureIndex, e.noteIndex).isRest)
              => e.audio

\* the scheduler is stopped: nothing playing, sentinel position, no indicator,
\* no timer
SchedulerStopped ==
  /\ ~pb.isPlaying
  /\ currentMeasure = -1 /\ currentNoteIndex = -1
  /\ pb.currentMeasure = -1 /\ pb.currentNoteIndex = -1
  /\ ~indicatorRef
  /\ timers = {}

FireOps == {"note", "stale", "restart", "end"}

\* C4: when the cursor has moved past the last note of the sequence: with loop
\* disabled the scheduler goes to stopped (nothing playing, sentinel position,
\* no indicator, no timer), and a playback whose loop is disabled eventually
\* gets there; with loop enabled and no loop range it resets the cursor and
\* triggers the first note again in the same step, never passing through
\* stopped.
C4_EndOfSequence ==
  /\ [][ \A tm \in timers :
           ( /\ tm.due <= elapsed
             /\ noteIndexRef >= Len(tm.notes)
             /\ lastOp' \in FireOps )
           => IF ~pb.loopEnabled
              THEN lastOp' = "end" /\ SchedulerStopped'
              ELSE pb.loopRange = Null =>
                     /\ lastOp' = "restart"
                     /\ pb'.isPlaying /\ indicatorRef'
                     /\ Cardinality(timers') = 1
                     /\ noteIndexRef' = 1
                     /\ passStart' = elapsed
                     /\ ~IsStale(tm, 0) =>
                          /\ Len(triggered') = 1
                          /\ triggered'[1].k = 0 /\ triggered'[1].t = 0
                          /\ SameNote(triggered'[1], tm.notes[1]) ]_vars
  /\ (timers # {} /\ ~pb.loopEnabled)
        ~> (SchedulerStopped \/ ~mounted \/ pb.loopEnabled)

StopOps == {"handleStop", "onPause", "onEscape", "end"}

\* C5: stop cancels the pending note timer at once and resets the position to
\* the sentinel (currentMeasure = currentNoteIndex = -1, progress = 0,
\* currentTime = 0); from then until the next play no note is triggered and the
\* cursor does not advance, whatever timer callbacks and user actions interleave.
C5_NothingAfterStop ==
  /\ [](lastOp \in StopOps =>
          /\ timers = {} /\ playbackTimeoutRef = <<>>
          /\ ~pb.isPlaying /\ ~pb.isPaused
          /\ currentMeasure = -1 /\ currentNoteIndex = -1
          /\ pb.currentMeasure = -1 /\ pb.currentNoteIndex = -1
          /\ pb.progress = 0 /\ pb.currentTime = 0
          /\ noteIndexRef = 0)
  /\ [][ (~pb.isPlaying /\ lastOp' # "handlePlay") =>
           /\ triggered' = triggered
           /\ noteIndexRef' = noteIndexRef
           /\ timers' = {} ]_vars

\* playback was stopped by the user half way through the first note of a
\* longer selection
C5_Witness ==
  /\ lastOp = "handleStop"
  /\ Len(triggered) = 1 /\ elapsed = Quantum
  /\ tempo = 60 /\ Len(selectedNotes) >= 2
  /\ timers = {}

\* C6: at most one note-stepping timer is pending at any moment (also after
\* play while playing, loop restart and stale-note retry); none is pending
\* after stop or after unmount.
C6_OneTimer ==
  /\ Cardinality(timers) <= 1
  /\ \A tm \in timers : <<tm.id>> = playbackTimeoutRef
  /\ (lastOp \in StopOps \cup {"unmount"} \/ ~mounted) => timers = {}

\* the retry timer of a stale entry replaced the timer that had just fired
C6_Witness ==
  /\ lastOp = "stale"
  /\ Cardinality(timers) = 1
  /\ \E tm \in timers : tm.due = elapsed + StaleRetryMs /\ tm.id = 2
  /\ Len(triggered) >= 1

\* ms of a number of beats (BeatUnit-ths) at the hook's tempo
LoopSeconds(beats) == (beats * 60000) \div (BeatUnit * tempoRef)

\* C7: with a loop armed, after every tick the published state is a function
\* of the elapsed time only: with cycleTime = elapsed mod (playDuration +
\* skipDuration), the phase is playing iff cycleTime < playDuration and the
\* published position is then the note sounding at startBeat + cycleTime,
\* otherwise the phase is skip (no current note, time held at playDuration).
C7_LoopPhaseFromElapsed ==
  (lastOp = "tick" /\ pb.loopEnabled /\ pb.loopRange # Null) =>
    LET playDuration == LoopSeconds(pb.loopRange.endBeat - pb.loopRange.startBeat)
        skipDuration == LoopSeconds(pb.loopRange.skipBeats)
        cycleTime == elapsed % (playDuration + skipDuration)
        sc == IF scoreRef # Null THEN scoreRef ELSE score
        pos == calculateNotePosition(sc,
                 LoopSeconds(pb.loopRange.startBeat) + cycleTime, tempoRef)
    IN IF cycleTime < playDuration
       THEN /\ pb.currentMeasure = pos.measureIndex
            /\ pb.currentNoteIndex = pos.noteIndex
            /\ pb.currentTime = cycleTime
       ELSE /\ pb.currentNoteIndex = -1
            /\ pb.currentTime = playDuration

\* C8: with a loop range whose skipBeats > 0 is active, the moment the last
\* note of the pass has finished is followed by silence: no note is triggered
\* at the restart of the pass.
C8_SilentSkipGap ==
  ~( /\ lastOp = "restart"
     /\ pb.loopRange # Null /\ pb.loopRange.skipBeats > 0
     /\ Len(triggered) > 0 )

\* rows holding at least one rendered note
PopulatedRows == { noteBoundsCache[i].rowIndex : i \in 1..Len(noteBoundsCache) }
NotesOfRow(row) == { n \in CachedNotes : n.rowIndex = row }
\* first and last note of a row in musical order
FirstOfRow(row) ==
  CHOOSE n \in NotesOfRow(row) : \A o \in NotesOfRow(row) : n = o \/ NoteLess(n, o)
LastOfRow(row) ==
  CHOOSE n \in NotesOfRow(row) : \A o \in NotesOfRow(row) : n = o \/ NoteLess(o, n)

\* C9: for anchors on rows r1 <= r3, getSelectionRects returns exactly one
\* rectangle per row of [r1, r3] that has a note, in ascending row order, rows
\* without notes being skipped; the rectangle of each strictly enclosed row
\* spans from its first note's left edge to its last note's right edge; with
\* rows r1..r3 and a populated middle row the result has exactly 3 rectangles.
C9_RectPerPopulatedRow ==
  lastOp = "getSelectionRects" =>
    LET r1 == Min(query.startNote.rowIndex, query.endNote.rowIndex)
        r3 == Max(query.startNote.rowIndex, query.endNote.rowIndex)
        spanned == (r1..r3) \cap PopulatedRows
    IN /\ Len(rects) = Cardinality(spanned)
       /\ { rects[i].rowIndex : i \in 1..Len(rects) } = spanned
       /\ \A i \in 1..Len(rects), j \in 1..Len(rects) :
            i < j => rects[i].rowIndex < rects[j].rowIndex
       /\ \A i \in 1..Len(rects) :
            /\ rects[i].rowY = TOP_Y + rects[i].rowIndex * (STAVE_HEIGHT + ROW_SPACING)
            /\ rects[i].rowHeight = STAVE_HEIGHT
            /\ (r1 < rects[i].rowIndex /\ rects[i].rowIndex < r3) =>
                 /\ rects[i].startX = FirstOfRow(rects[i].rowIndex).x
                 /\ rects[i].endX = LastOfRow(rects[i].rowIndex).x
                                      + LastOfRow(rects[i].rowIndex).width
       /\ (r3 = r1 + 2 /\ r1 + 1 \in PopulatedRows) => Len(rects) = 3

\* anchors two rows apart with a populated middle row whose notes lie in
\* different measures
C9_Witness ==
  /\ lastOp = "getSelectionRects"
  /\ query.endNote.rowIndex = query.startNote.rowIndex + 2
  /\ Len(rects) = 3
  /\ rects[2].endX - rects[2].startX > STAVE_WIDTH

\* the notes inside the per-row X intervals of a decomposition, in index order
NotesInRects(rs) ==
  LET inside == SelectSeq(noteBoundsCache, LAMBDA n :
                  \E i \in 1..Len(rs) :
                    /\ rs[i].rowIndex = n.rowIndex
                    /\ n.x >= rs[i].startX
                    /\ n.x + n.width <= rs[i].endX)
  IN [ i \in 1..Len(inside) |->
         Note(inside[i].measureIndex, inside[i].noteIndex) ]

\* C10: for a range whose startNote and endNote both resolve in the bounds
\* index, getNotesInRange(range, notePositions) returns exactly the notes
\* inside the per-row X intervals of the cross-row decomposition of
\* (startNote, endNote), on every spanned row, whatever startX and endX are.
C10_RangeByDecomposition ==
  ( /\ lastOp = "getNotesInRange"
    /\ query.range.startNote # Null /\ query.range.endNote # Null
    /\ FindIndex(noteBoundsCache, query.range.startNote) # -1
    /\ FindIndex(noteBoundsCache, query.range.endNote) # -1 ) =>
    LET a == noteBoundsCache[FindIndex(noteBoundsCache, query.range.startNote) + 1]
        b == noteBoundsCache[FindIndex(noteBoundsCache, query.range.endNote) + 1]
    IN notesInRange = NotesInRects(getSelectionRects(a, b))

\* the set of (measureIndex, noteIndex) pairs of a selection
PairsOf(list) == { list[i] : i \in 1..Len(list) }

\* C11: for any selection S and any note n, toggling n twice in a row
\* (selectNote(n, 'toggle'), or toggleNote(n)) yields a selection with the
\* same set of (measureIndex, noteIndex) pairs as S; the order may differ.
C11_ToggleTwice ==
  [][ /\ ( /\ lastOp = "selectNote" /\ lastOp' = "selectNote"
           /\ lastArgs[2] = "toggle" /\ lastArgs' = lastArgs )
         => PairsOf(selectedNotes') = PairsOf(selBefore)
      /\ ( /\ lastOp = "toggleNote" /\ lastOp' = "toggleNote"
           /\ lastArgs' = lastArgs )
         => PairsOf(selectedNotes') = PairsOf(selBefore) ]_vars

\* the second of two toggles put a note back behind the notes that followed
\* it before: same pairs, other order
C11_Witness ==
  /\ lastOp = "selectNote" /\ lastArgs = <<Note(0, 0), "toggle">>
  /\ selBefore = <<Note(0, 1), Note(1, 0)>>
  /\ selectedNotes = <<Note(0, 1), Note(1, 0), Note(0, 0)>>
  /\ anchorNote = Note(0, 0)

\* C12: selectNote(A, 'replace') then selectNote(B, 'replace') leaves exactly
\* {B} selected, from any selection; from the empty selection
\* selectNote(A, 'toggle') then selectNote(B, 'toggle') with A # B leaves
\* exactly {A, B}; every selectNote call makes its note the anchor.
C12_ReplaceAndToggle ==
  /\ [](lastOp = "selectNote" =>
          /\ anchorNote = lastArgs[1]
          /\ lastArgs[2] = "replace" => selectedNotes = <<lastArgs[1]>>)
  /\ [][ ( /\ lastOp = "selectNote" /\ lastOp' = "selectNote"
           /\ lastArgs[2] = "toggle" /\ lastArgs'[2] = "toggle"
           /\ selBefore = <<>> /\ lastArgs'[1] # lastArgs[1] )
         => /\ PairsOf(selectedNotes') = {lastArgs[1], lastArgs'[1]}
            /\ Len(selectedNotes') = 2 ]_vars

\* B was toggled in right after A had been toggled into the empty selection
C12_Witness ==
  /\ lastOp = "selectNote" /\ lastArgs = <<Note(0, 1), "toggle">>
  /\ selBefore = <<Note(0, 0)>>
  /\ selectedNotes = <<Note(0, 0), Note(0, 1)>>
  /\ anchorNote = Note(0, 1)

\* C13: after startRangeSelection(x0) followed by updateRangeSelection(x), for
\* every pivot x0 (0 included) and every x, the range has startX = min(x0, x)
\* and endX = max(x0, x), hence startX <= endX also on a leftward drag.
C13_RangeFromPivot ==
  [][ (lastOp = "startRangeSelection" /\ lastOp' = "updateRangeSelection") =>
        /\ selectionRange' # Null
        /\ selectionRange'.startX = Min(lastArgs[1], lastArgs'[1])
        /\ selectionRange'.endX = Max(lastArgs[1], lastArgs'[1])
        /\ selectionRange'.startX <= selectionRange'.endX ]_vars

\* C14: moveRangeHandle(handle, x) changes only the named boundary: the other
\* boundary keeps its value and startY, endY, startNote and endNote of the
\* range are unchanged, so a note-anchored range stays note-anchored.
C14_HandleMoveFrame ==
  [][ (lastOp' = "moveRangeHandle" /\ selectionRange # Null) =>
        /\ selectionRange' # Null
        /\ lastArgs'[1] = "start" => selectionRange'.endX = selectionRange.endX
        /\ lastArgs'[1] = "end" => selectionRange'.startX = selectionRange.startX
        /\ selectionRange'.startY = selectionRange.startY
        /\ selectionRange'.endY = selectionRange.endY
        /\ selectionRange'.startNote = selectionRange.startNote
        /\ selectionRange'.endNote = selectionRange.endNote ]_vars

\* C15: after any sequence of renders, possibly of different scores, the note
\* bounds list holds exactly one entry per note of the most recently rendered
\* score, none from an earlier render, in strictly ascending
\* (measureIndex, noteIndex) order; between renders nothing changes it but
\* clearing the notation container, which empties it.
C15_CacheIsLastRender ==
  /\ [](lastOp = "renderScore" =>
          LET counts == lastArgs[1]
          IN /\ \A m \in 0..(Len(counts) - 1) : \A n \in 0..(counts[m + 1] - 1) :
                  Cardinality({ i \in 1..Len(noteBoundsCache) :
                                  SameNote(noteBoundsCache[i], Note(m, n)) }) = 1
             /\ \A i \in 1..Len(noteBoundsCache) :
                  /\ noteBoundsCache[i].measureIndex \in 0..(Len(counts) - 1)
                  /\ noteBoundsCache[i].noteIndex \in
                       0..(counts[noteBoundsCache[i].measureIndex + 1] - 1)
             /\ \A i \in 1..Len(noteBoundsCache), j \in 1..Len(noteBoundsCache) :
                  i < j => NoteLess(noteBoundsCache[i], noteBoundsCache[j]))
  /\ [][ /\ lastOp' \notin {"renderScore", "clearNotationContainer"} =>
            noteBoundsCache' = noteBoundsCache
         /\ lastOp' = "clearNotationContainer" => noteBoundsCache' = <<>> ]_vars

\* the score with the short last row was rendered: four notes in three measures
C15_Witness ==
  /\ lastOp = "renderScore"
  /\ lastArgs[1] \in ShortScores
  /\ Len(noteBoundsCache) = 4
  /\ noteBoundsCache[4].measureIndex = 5

\* C16: calculateScoreLayout(measureCount, measuresPerRow) yields
\* ceil(measureCount / measuresPerRow) rows that partition [0, measureCount):
\* row 0 starts at measure 0, each row's endMeasure + 1 is the next row's
\* startMeasure, the last row ends at measureCount - 1, every row has
\* startMeasure <= endMeasure, and y grows by STAVE_HEIGHT + rowSpacing per
\* row; measureCount = 0 yields zero rows.
C16_RowsPartitionMeasures ==
  lastOp = "calculateScoreLayout" =>
    LET measureCount == lastArgs[1]
        perRow == lastArgs[2]
        rowSpacing == lastArgs[3]
        rows == result
    IN /\ \E k \in 0..measureCount :
            /\ Len(rows) = k
            /\ k * perRow >= measureCount
            /\ (k = 0 \/ (k - 1) * perRow < measureCount)
       /\ measureCount = 0 => rows = <<>>
       /\ Len(rows) > 0 =>
            /\ rows[1].startMeasure = 0
            /\ rows[Len(rows)].endMeasure = measureCount - 1
       /\ \A i \in 1..Len(rows) :
            /\ rows[i].rowIndex = i - 1
            /\ rows[i].startMeasure <= rows[i].endMeasure
            /\ rows[i].endMeasure - rows[i].startMeasure < perRow
            /\ i < Len(rows) =>
                 /\ rows[i].endMeasure + 1 = rows[i + 1].startMeasure
                 /\ rows[i + 1].y = rows[i].y + STAVE_HEIGHT + rowSpacing
                 /\ rows[i + 1].y > rows[i].y

\* a layout whose last row is short: 7 measures in rows of 3
C16_Witness ==
  /\ lastOp = "calculateScoreLayout"
  /\ lastArgs[1] = 7 /\ lastArgs[2] = 3
  /\ Len(result) = 3
  /\ result[3].startMeasure = 6 /\ result[3].endMeasure = 6

\* index (1-based) of the bounds of note (m, n) in the bounds list, 0 if none
BoundsIndex(m, n) ==
  IF \E i \in 1..Len(noteBoundsCache) : SameNote(noteBoundsCache[i], Note(m, n))
  THEN CHOOSE i \in 1..Len(noteBoundsCache) : SameNote(noteBoundsCache[i], Note(m, n))
  ELSE 0

\* C17: getPlaybackIndicatorX(m, n, p, isLastNote): when (m, n) has bounds and
\* a next entry exists in bounds-index order and isLastNote is false, the
\* result is x_cur + (x_next - x_cur) * p, otherwise x_cur + width_cur * p;
\* when (m, n) has no bounds it is the x of the first note of measure m, or 0
\* if that measure has no rendered note.
C17_IndicatorX ==
  lastOp = "getPlaybackIndicatorX" =>
    LET m == lastArgs[1]
        n == lastArgs[2]
        pr == lastArgs[3]
        isLast == lastArgs[4]
        i == BoundsIndex(m, n)
        ofMeasure == { j \in 1..Len(noteBoundsCache) :
                         noteBoundsCache[j].measureIndex = m }
    IN IF i # 0
       THEN IF i < Len(noteBoundsCache) /\ ~isLast
            THEN ProgressUnit * (result - noteBoundsCache[i].x)
                   = (noteBoundsCache[i + 1].x - noteBoundsCache[i].x) * pr
            ELSE ProgressUnit * (result - noteBoundsCache[i].x)
                   = noteBoundsCache[i].width * pr
       ELSE IF ofMeasure # {}
            THEN \E j \in ofMeasure :
                   /\ \A k \in ofMeasure : j <= k
                   /\ result = noteBoundsCache[j].x
            ELSE result = 0

\* half way between a note and the next note of the bounds list
C17_Witness ==
  /\ lastOp = "getPlaybackIndicatorX"
  /\ lastArgs[3] = 50 /\ ~lastArgs[4]
  /\ BoundsIndex(lastArgs[1], lastArgs[2]) \in 1..(Len(noteBoundsCache) - 1)
  /\ result > noteBoundsCache[BoundsIndex(lastArgs[1], lastArgs[2])].x
                + NoteHeadWidth

\* C18: in every reachable state of usePlayback isPlaying and isPaused are
\* never both true; play() leads to playing, pause() to paused and stop() to
\* stopped, and pause() and stop() leave no tick interval registered.
C18_PlayPauseStop ==
  /\ ~(pb.isPlaying /\ pb.isPaused)
  /\ lastOp = "play" => pb.isPlaying /\ ~pb.isPaused
  /\ lastOp = "pause" => ~pb.isPlaying /\ pb.isPaused /\ ~intervalRef
  /\ lastOp = "stop" => ~pb.isPlaying /\ ~pb.isPaused /\ ~intervalRef

\* paused after the hook had been playing for a while
C18_Witness ==
  /\ lastOp = "pause"
  /\ pb.isPaused /\ ~pb.isPlaying
  /\ pb.currentMeasure = 0
  /\ elapsed > 0

\* C19: pause preserves currentTime and the position (currentMeasure,
\* currentNoteIndex, progress), and a play issued while paused continues from
\* the time and note held at pause instead of restarting the sequence.
C19_PauseResumes ==
  [][ /\ lastOp' = "onPause" =>
           /\ currentMeasure' = currentMeasure
           /\ currentNoteIndex' = currentNoteIndex
           /\ noteIndexRef' = noteIndexRef
           /\ pb'.currentMeasure = pb.currentMeasure
           /\ pb'.currentNoteIndex = pb.currentNoteIndex
           /\ pb'.currentTime = pb.currentTime
           /\ pb'.progress = pb.progress
      /\ (lastOp = "onPause" /\ lastOp' = "handlePlay") =>
           /\ currentMeasure' = currentMeasure
           /\ currentNoteIndex' = currentNoteIndex ]_vars

\* C20: a loop configuration with skipBeats = 0 is plain looping: setting
\* skipBeats to 0 while a selection is loop-armed does not disable looping,
\* and no loop range with a zero-length cycle is ever armed.
C20_ZeroSkipIsPlainLoop ==
  /\ [][ ( /\ lastOp' = "onLoopConfigChange" /\ mounted'
           /\ loopConfig'.skipBeats = 0 /\ selectedNotes # <<>>
           /\ pb.loopEnabled /\ pb.loopRange # Null )
         => pb'.loopEnabled ]_vars
  /\ [](pb.loopRange # Null =>
          (pb.loopRange.endBeat - pb.loopRange.startBeat)
            + pb.loopRange.skipBeats > 0)

\* C21: selection and playback never throw on a SelectedNote that does not
\* exist in the current score: every handler that re-runs the loop-range
\* computation (selection, loop configuration, score load) leaves the App
\* mounted.
C21_StaleNotesSkipped ==
  [][ lastOp' \in {"onNoteSelect", "onLoopConfigChange", "syncLoopEffect",
                  "onClearSelection", "onArrowLeft", "onArrowRight"}
        => mounted' ]_vars

\* C22: after triggering the note at the cursor the scheduler waits
\* beats(durationCode) * (60 / tempo) * (4 / beatValue) before advancing, with
\* beatValue the denominator of the score's time signature.
C22_StepDelayUsesBeatValue ==
  [][ ( /\ lastOp' \in {"handlePlay", "restart", "note"}
        /\ triggered' # <<>> /\ playbackTimeoutRef' # <<>> )
      => \E tm \in timers' :
           /\ tm.id = playbackTimeoutRef'[1]
           /\ LET e == triggered'[Len(triggered')]
                  note == NoteAt(tm.score, e.measureIndex, e.noteIndex)
              IN tm.due - elapsed'
                   = noteDurationToSeconds(note.duration, tm.tempo,
                                           tm.score.beatValue) ]_vars

\* C23: for every score produced by parseMusicXML, measures[i].index = i
\* (0-based, contiguous, in document order), whatever measure numbers the file
\* carries; the score has exactly the measures of the first part.
C23_MeasureIndexIsPosition ==
  lastOp = "parseMusicXML" =>
    /\ \A i \in 1..Len(result.measures) : result.measures[i].index = i - 1
    /\ Len(result.measures) = IF lastArgs[1] = <<>> THEN 0 ELSE Len(lastArgs[1][1])

\* a parsed score of three measures whose file numbers are not their positions
C23_Witness ==
  /\ lastOp = "parseMusicXML"
  /\ Len(result.measures) = 3
  /\ lastArgs[1][1][1].number = 7
  /\ lastArgs[1][1][2].number = 7
  /\ result.measures[2].index = 1

\* C24: when a non-empty selection of existing notes is loop-armed, startBeat
\* is the sum of DURATION_TO_BEATS over all notes before the first selected
\* note in score order, endBeat is that sum over all notes up to and including
\* the last selected note, and 0 <= startBeat < endBeat.
C24_LoopBeatsFromScore ==
  ( /\ mounted /\ pb.loopRange # Null /\ selectedNotes # <<>>
    /\ \A i \in 1..Len(selectedNotes) :
         HasNote(score, selectedNotes[i].measureIndex, selectedNotes[i].noteIndex) )
  => LET sorted == SortNotes(selectedNotes)
         first == sorted[1]
         last == sorted[Len(sorted)]
     IN /\ pb.loopRange.startBeat
             = BeatsOfMeasures(score, first.measureIndex)
                 + BeatsBefore(score, first.measureIndex, first.noteIndex)
        /\ pb.loopRange.endBeat
             = BeatsOfMeasures(score, last.measureIndex)
                 + BeatsBefore(score, last.measureIndex, last.noteIndex + 1)
        /\ 0 <= pb.loopRange.startBeat
        /\ pb.loopRange.startBeat < pb.loopRange.endBeat

\* C25: while usePlayback is playing a score of positive total duration with
\* loop disabled, every tick publishes the time elapsed since play() as
\* currentTime, or, at the end, stops with progress 100.
C25_TickPublishesElapsed ==
  (lastOp = "tick" /\ scoreRef # Null /\ ~pb.loopEnabled /\ elapsed > 0) =>
    \/ pb.isPlaying /\ pb.currentTime = elapsed
    \/ ~pb.isPlaying /\ pb.progress = 100

\* C26: for every measure m of the rendered score, the row whose bounds the
\* playback indicator uses for m is the row on which renderScore placed m: when
\* the frame callback positions the indicator while the caches hold a render of
\* the App's score, the bounds are those of the row of rowConfigsCache that
\* contains m, which is the stave row of every NoteBounds entry of m; and the
\* bounds are null only when no rendered row contains m.
C26_IndicatorRowIsRenderedRow ==
  ( /\ lastOp = "updateIndicator"
    /\ pb.isPlaying /\ indicatorRef /\ currentNoteDurationRef # 0
    /\ rowConfigsCache =
         calculateScoreLayout(Len(score.measures), measuresPerRow, ROW_SPACING)
    /\ noteBoundsCache = RenderBounds(CountsOf(score), 0) ) =>
    LET m == lastArgs[1]
        rendered == FindRow(m, rowConfigsCache)
    IN IF rendered = Null THEN TRUE
       ELSE /\ result # Null
            /\ result.top = rendered.y + VERTICAL_OFFSET
            /\ result.bottom = rendered.y + STAVE_HEIGHT - VERTICAL_OFFSET
            /\ \A i \in 1..Len(noteBoundsCache) :
                 noteBoundsCache[i].measureIndex = m
                   => result.top = noteBoundsCache[i].staveY + VERTICAL_OFFSET

\* the rendered notes whose rect overlaps the X interval of range, boundary
\* touch included, in rendering order
OverlappingX(range) ==
  LET lo == Min(range.startX, range.endX)
      hi == Max(range.startX, range.endX)
      hit == SelectSeq(noteBoundsCache,
                       LAMBDA n : n.x + n.width >= lo /\ n.x <= hi)
  IN [ i \in 1..Len(hit) |-> Note(hit[i].measureIndex, hit[i].noteIndex) ]

\* the rows whose stave contains the height y
RowsAtY(y) ==
  { rowConfigsCache[i].rowIndex : i \in
      { j \in 1..Len(rowConfigsCache) :
          /\ y >= rowConfigsCache[j].y
          /\ y <= rowConfigsCache[j].y + STAVE_HEIGHT } }

\* C27: for a coordinate-anchored range getNotesInRange returns exactly the
\* notes whose rect overlaps [min(startX, endX), max(startX, endX)], boundary
\* touch included; when startY is present it returns only notes of the row in
\* which the drag started.
C27_RangeByXOverlap ==
  (lastOp = "getNotesInRange" /\ query.range.startNote = Null) =>
    IF query.range.startY = <<>>
    THEN notesInRange = OverlappingX(query.range)
    ELSE /\ PairsOf(notesInRange) \subseteq PairsOf(OverlappingX(query.range))
         /\ \A i \in 1..Len(notesInRange) :
              noteBoundsCache[FindIndex(noteBoundsCache, notesInRange[i]) + 1].rowIndex
                \in RowsAtY(query.range.startY[1])

\* the rows whose band contains the height y
BandRowsAtY(y) ==
  { rowConfigsCache[i].rowIndex : i \in
      { j \in 1..Len(rowConfigsCache) :
          /\ y >= rowConfigsCache[j].y + VERTICAL_OFFSET
          /\ y <= rowConfigsCache[j].y + STAVE_HEIGHT - VERTICAL_OFFSET } }

\* the rendered notes of a row whose box overlaps [lo, hi]
OverlappingInRow(row, lo, hi) ==
  { n \in NotesOfRow(row) : n.x + n.width >= lo /\ n.x <= hi }

\* C28: calculateRowHighlights on a range that carries startNote/endNote of
\* which at least one has no entry in the bounds index resolves the range as
\* coordinate-anchored: one highlight, in ascending row order, for every row
\* between the rows of startY and endY (the row of startY alone without endY)
\* that has a note overlapping [startX, endX], spanning those notes.
C28_UnresolvedAnchorFallsBack ==
  ( /\ lastOp = "calculateRowHighlights" /\ lastArgs[1] # Null
    /\ rowConfigsCache # <<>>
    /\ lastArgs[1].startNote # Null /\ lastArgs[1].endNote # Null
    /\ \/ FindIndex(noteBoundsCache, lastArgs[1].startNote) = -1
       \/ FindIndex(noteBoundsCache, lastArgs[1].endNote) = -1
    /\ lastArgs[1].startY # <<>> ) =>
    LET r == lastArgs[1]
        lo == Min(r.startX, r.endX)
        hi == Max(r.startX, r.endX)
        rowsS == BandRowsAtY(r.startY[1])
        rowsE == IF r.endY = <<>> THEN rowsS ELSE BandRowsAtY(r.endY[1])
        spanned == { row \in 0..(Len(rowConfigsCache) - 1) :
                       /\ \E s \in rowsS, e \in rowsE :
                            Min(s, e) <= row /\ row <= Max(s, e)
                       /\ OverlappingInRow(row, lo, hi) # {} }
    IN /\ { result[i].row.rowIndex : i \in 1..Len(result) } = spanned
       /\ Len(result) = Cardinality(spanned)
       /\ \A i \in 1..Len(result), j \in 1..Len(result) :
            i < j => result[i].row.rowIndex < result[j].row.rowIndex
       /\ \A i \in 1..Len(result) :
            LET ns == OverlappingInRow(result[i].row.rowIndex, lo, hi)
            IN /\ result[i].row \in { rowConfigsCache[k] : k \in 1..Len(rowConfigsCache) }
               /\ \E n \in ns : n.x = result[i].lineStartX
               /\ \A n \in ns : n.x >= result[i].lineStartX
               /\ \E n \in ns : n.x + n.width = result[i].lineEndX
               /\ \A n \in ns : n.x + n.width <= result[i].lineEndX

\* a range whose start anchor is missing, dragged across two rows, resolved by
\* coordinates into a highlight on each of them
C28_Witness ==
  /\ lastOp = "calculateRowHighlights" /\ lastArgs[1] # Null
  /\ lastArgs[1].startNote = MissingNote
  /\ lastArgs[1].endNote # Null /\ lastArgs[1].endNote # MissingNote
  /\ Len(result) = 2
  /\ result[1].row.rowIndex # result[2].row.rowIndex

\* C29: getSelectionRects(a, b) equals getSelectionRects(b, a) for any two
\* notes of the bounds index; with the anchors on different rows the rectangle
\* of the first spanned row starts at the x of the anchor on that row and the
\* rectangle of the last spanned row ends at the right edge of the anchor on
\* that row.
C29_RectsSymmetric ==
  lastOp = "getSelectionRects" =>
    LET a == query.startNote
        b == query.endNote
        upper == IF a.rowIndex <= b.rowIndex THEN a ELSE b
        lower == IF a.rowIndex <= b.rowIndex THEN b ELSE a
    IN /\ rects = getSelectionRects(b, a)
       /\ a.rowIndex # b.rowIndex =>
            /\ rects[1].startX = upper.x
            /\ rects[Len(rects)].endX = lower.x + lower.width

\* C30: when a pass of the note sequence ends, the restart-or-stop decision
\* uses the loop setting in effect at that moment: with looping off the
\* running playback stops, with looping on it restarts.
C30_LoopSettingAtEndOfPass ==
  [][ \A tm \in timers :
        ( /\ tm.due <= elapsed
          /\ noteIndexRef >= Len(tm.notes)
          /\ lastOp' \in FireOps )
        => lastOp' = IF pb.loopEnabled THEN "restart" ELSE "end" ]_vars

====
